---- MODULE Spec2Model ----
(***************************************************************************)
(* Aventurine League Tools, native helpers.                                *)
(*                                                                         *)
(*   Container Converter: tex_to_dds_bytes (ritoddstex_dll.c and its copy  *)
(*   in lol_native.cpp), stepped through its return paths and its mip-copy *)
(*   loop.  Specification SpecTex.                                         *)
(*                                                                         *)
(*   Graph Extractor: extract_textures (bin_parser.cpp and lol_native.cpp),*)
(*   stepped one "entries" pair at a time.  Specification SpecBin.         *)
(***************************************************************************)
EXTENDS Integers, Sequences, FiniteSets, TLC

VARIABLES
    \* ---- Container Converter ----
    dll,            \* which build of tex_to_dds_bytes runs
    file,           \* the bytes of the .tex file on disk
    pc,             \* position inside tex_to_dds_bytes
    tex_file,       \* FILE* tex_file: "null", "open" or "closed"
    file_size,
    tex_header,     \* TEX_HEADER as read by fread
    ddspf,          \* DDS_PIXELFORMAT under construction
    need_dx10,
    mipmap_count,
    tex_data_size,
    header_size,
    total_size,
    dds_data,       \* the output buffer's bytes (index k+1 holds offset k)
    dds_state,      \* "none", "live" or "freed"
    written,        \* offsets of dds_data that a memcpy has written
    ptr,            \* write offset into dds_data
    tex_data,       \* the scratch payload buffer
    tex_state,      \* "none", "live" or "freed"
    current_offset,
    i,
    copies,         \* the memcpy calls of the mip loop: <<dst, src, len>>
    ret,            \* the returned status
    out_data,       \* *out_data: Unset, or the buffer handed to the caller
    out_size,       \* *out_size
    \* ---- Graph Extractor ----
    impl,           \* which build of extract_textures runs
    doc,            \* ritobin::Bin: the decoded document
    bpc,            \* position inside extract_textures
    entries_map,    \* std::unordered_map<uint32_t, const Embed*>
    results,        \* std::unordered_map<std::string, std::string>
    idx,            \* how many pairs of "entries" the main loop has passed
    log,            \* one record per override element the loop has handled
    out             \* the serialized result, one <<key, value>> per line

texVars == <<dll, file, pc, tex_file, file_size, tex_header, ddspf, need_dx10,
             mipmap_count, tex_data_size, header_size, total_size, dds_data,
             dds_state, written, ptr, tex_data, tex_state, current_offset, i,
             copies, ret, out_data, out_size>>
binVars == <<impl, doc, bpc, entries_map, results, idx, log, out>>
vars == <<texVars, binVars>>

(***************************************************************************)
(* Bounds of the model.                                                    *)
(***************************************************************************)
MaxDim == 4          \* image_width and image_height range over 0..MaxDim, and 8
MaxPayload == 24     \* the file holds at most this many bytes after the header

(***************************************************************************)
(* tex.h and dds.h                                                         *)
(***************************************************************************)
TEX_FORMAT_ETC1 == 1
TEX_FORMAT_DXT1 == 10
TEX_FORMAT_DXT5 == 12
TEX_FORMAT_BGRA8 == 20
TEX_FORMAT_RGBA16 == 21
SIZEOF_TEX_HEADER == 12
SIZEOF_DDS_HEADER == 124
SIZEOF_DDS_PIXELFORMAT == 32
DX10_HEADER_SIZE == 20
DDS_HEADER_FLAGS_TEXTURE == 4103
DDS_HEADER_FLAGS_MIPMAP == 131072
DDS_FOURCC == 4
DDS_RGBA == 65
DDS_SURFACE_FLAGS_TEXTURE == 4096
DDS_SURFACE_FLAGS_MIPMAP == 4194312

\* 'T', 'E', 'X', '\0'
TEX_MAGIC == <<84, 69, 88, 0>>
\* 'D', 'D', 'S', ' '
DDS_MAGIC == <<68, 68, 83, 32>>

Unset == "unset"

(***************************************************************************)
(* Byte-level helpers: what memcpy of a packed little-endian struct does.  *)
(***************************************************************************)
Le16(x) == <<x % 256, (x \div 256) % 256>>
Le32(x) == <<x % 256, (x \div 256) % 256, (x \div 65536) % 256, (x \div 16777216) % 256>>
\* a uint32 given by its two 16-bit halves (0xff000000 exceeds the checker's integers)
Le32Halves(hi, lo) == Le16(lo) \o Le16(hi)
U16At(bytes, off) == bytes[off + 1] + 256 * bytes[off + 2]
Zeros(n) == [k \in 1..n |-> 0]
Take(s, n) == SubSeq(s, 1, n)
Ascii4(a, b, c, d) == <<a, b, c, d>>

\* faulty variant of Memcpy: the copy stops one byte early
Memcpy_short(dst, at, src, from, n) ==
    [k \in 1..Len(dst) |->
        IF k > at /\ k <= at + n - 1 THEN src[from + (k - at)] ELSE dst[k]]

\* memcpy(dst + at, src + from, n): the bytes of dst after the call
Memcpy(dst, at, src, from, n) ==
    [k \in 1..Len(dst) |->
        IF k > at /\ k <= at + n THEN src[from + (k - at)] ELSE dst[k]]

(***************************************************************************)
(* Helpers of the converter.                                               *)
(***************************************************************************)
MAX(a, b) == IF a > b THEN a ELSE b

RECURSIVE BitLength(_)
BitLength(x) == IF x = 0 THEN 0 ELSE 1 + BitLength(x \div 2)

\* _BitScanReverse finds the index of the highest set bit; none for x = 0
clz32(x) == IF x # 0 THEN 31 - (BitLength(x) - 1) ELSE 32

\* faulty variant of calc_mipmap_count: the smaller dimension decides
calc_mipmap_count_min(width, height) ==
    LET min_dim == IF width < height THEN width ELSE height IN 32 - clz32(min_dim)

\* ritoddstex_dll.c
calc_mipmap_count(width, height) ==
    LET max_dim == MAX(width, height) IN 32 - clz32(max_dim)

RECURSIVE CountLoop(_, _)
CountLoop(max_dim, count) ==
    IF max_dim > 0 THEN CountLoop(max_dim \div 2, count + 1) ELSE count

\* lol_native.cpp
calc_mipmap_count_ln(width, height) ==
    LET max_dim == IF width > height THEN width ELSE height IN CountLoop(max_dim, 0)

MipCount(d, width, height) ==
    IF d = "ritoddstex_dll" THEN calc_mipmap_count(width, height)
    ELSE calc_mipmap_count_ln(width, height)

\* faulty variant of get_bytes_per_block: the DXT1 and DXT5 block sizes swapped
get_bytes_per_block_swapped(format) ==
    CASE format = TEX_FORMAT_DXT1 -> 16
      [] format = TEX_FORMAT_DXT5 -> 8
      [] format = TEX_FORMAT_BGRA8 -> 4
      [] format = TEX_FORMAT_RGBA16 -> 8
      [] OTHER -> 0

get_bytes_per_block(format) ==
    CASE format = TEX_FORMAT_DXT1 -> 8
      [] format = TEX_FORMAT_DXT5 -> 16
      [] format = TEX_FORMAT_BGRA8 -> 4
      [] format = TEX_FORMAT_RGBA16 -> 8
      [] OTHER -> 0

get_block_size(format) ==
    CASE format = TEX_FORMAT_DXT1 -> 4
      [] format = TEX_FORMAT_DXT5 -> 4
      [] format = TEX_FORMAT_BGRA8 -> 1
      [] format = TEX_FORMAT_RGBA16 -> 1
      [] OTHER -> 1

\* x >> n on a non-negative value
Shr(x, n) == x \div (2 ^ n)

(***************************************************************************)
(* 32-bit arithmetic.  A uint32_t is kept as its two 16-bit halves         *)
(* [hi, lo], so that products of 16-bit dimensions are computed as the     *)
(* machine computes them; an int32_t is kept as its signed value.          *)
(***************************************************************************)
U32(x) == [hi |-> (x \div 65536) % 65536, lo |-> x % 65536]

\* the product of a uint32_t below 2^22 and a uint32_t below 2^16, before truncation
Product(x, y) ==
    LET p1 == x * (y \div 256)
        p0 == x * (y % 256)
        mid == (p1 % 256) * 256 + p0
    IN  [hi |-> p1 \div 256 + mid \div 65536, lo |-> mid % 65536]

\* faulty variant of Truncate32: the product keeps the bits above bit 31
Truncate32_exact(p) == p

\* the low 32 bits of a product
Truncate32(p) == [hi |-> p.hi % 65536, lo |-> p.lo]

\* a - b on uint32_t
SubU32(a, b) ==
    LET borrow == IF a.lo < b.lo THEN 1 ELSE 0
    IN  [hi |-> (a.hi - b.hi - borrow) % 65536, lo |-> (a.lo - b.lo) % 65536]

\* the conversion of a uint32_t to int32_t
Int32(u) == IF u.hi >= 32768 THEN (u.hi - 65536) * 65536 + u.lo ELSE u.hi * 65536 + u.lo

\* current_offset -= mip_size, with int32_t current_offset and uint32_t mip_size:
\* the subtraction is carried out on uint32_t and the result converted back
SubFromOffset(offset, mip_size) == Int32(SubU32(U32(offset), mip_size))

\* faulty variant of MipSize: the block counts rounded down instead of up
MipSize_floor(hdr, lvl) ==
    LET block_size == get_block_size(hdr.tex_format)
        bytes_per_block == get_bytes_per_block(hdr.tex_format)
        mip_width == MAX(Shr(hdr.image_width, lvl), 1)
        mip_height == MAX(Shr(hdr.image_height, lvl), 1)
        block_width == mip_width \div block_size
        block_height == mip_height \div block_size
    IN Truncate32(Product(bytes_per_block * block_width, block_height))

\* the body of the copy loop up to mip_size, for level i: a uint32_t
MipSize(hdr, lvl) ==
    LET block_size == get_block_size(hdr.tex_format)
        bytes_per_block == get_bytes_per_block(hdr.tex_format)
        mip_width == MAX(Shr(hdr.image_width, lvl), 1)
        mip_height == MAX(Shr(hdr.image_height, lvl), 1)
        block_width == (mip_width + block_size - 1) \div block_size
        block_height == (mip_height + block_size - 1) \div block_size
    IN Truncate32(Product(bytes_per_block * block_width, block_height))

\* memcpy(ptr, tex_data + from, n) stays inside both buffers
CopyInBounds(at, from, n, src_size, dst_size) ==
    /\ n.hi = 0
    /\ from <= src_size /\ from + n.lo <= src_size
    /\ at + n.lo <= dst_size

(***************************************************************************)
(* The input files of the converter.                                       *)
(***************************************************************************)
\* the twelve bytes of a packed TEX_HEADER
HeaderBytes(magic, w, h, fmt, mips) ==
    magic \o Le16(w) \o Le16(h) \o <<0, fmt, 0, mips>>

\* payload byte k (from 0) has value k: every position is told apart
PayloadBytes(n) == [k \in 1..n |-> (k - 1) % 256]

Magics == {TEX_MAGIC, <<84, 69, 88, 7>>, DDS_MAGIC}
Formats == {TEX_FORMAT_DXT1, TEX_FORMAT_DXT5, TEX_FORMAT_BGRA8, TEX_FORMAT_RGBA16,
            TEX_FORMAT_ETC1, 255}
MipFlags == {0, 1}
Dims == (0..MaxDim) \cup {8}
\* what malloc may hand back in every byte of a fresh block
Fills == {0, 205}

NoHeader == [magic |-> <<>>, image_width |-> 0, image_height |-> 0, unk1 |-> 0,
             tex_format |-> 0, unk2 |-> 0, has_mipmaps |-> 0]
NoPixelFormat == [dwSize |-> 0, dwFlags |-> 0, dwFourCC |-> Zeros(4),
                  dwRGBBitCount |-> 0, dwRBitMask |-> Zeros(4), dwGBitMask |-> Zeros(4),
                  dwBBitMask |-> Zeros(4), dwABitMask |-> Zeros(4)]

\* fread(&tex_header, sizeof(TEX_HEADER), 1, tex_file)
ParseHeader(bytes) ==
    [magic |-> SubSeq(bytes, 1, 4),
     image_width |-> U16At(bytes, 4),
     image_height |-> U16At(bytes, 6),
     unk1 |-> bytes[9],
     tex_format |-> bytes[10],
     unk2 |-> bytes[11],
     has_mipmaps |-> bytes[12]]

\* faulty variant of MagicMatches: memcmp over zero bytes
MagicMatches_none(hdr) == Take(hdr.magic, 0) = Take(TEX_MAGIC, 0)

\* memcmp(tex_header.magic, TEX_MAGIC, 3) == 0
MagicMatches(hdr) == Take(hdr.magic, 3) = Take(TEX_MAGIC, 3)

\* faulty variant of IsSupportedFormat: the ETC1 code of tex.h falls into a supported case
IsSupportedFormat_etc1(fmt) ==
    fmt \in {TEX_FORMAT_ETC1, TEX_FORMAT_DXT1, TEX_FORMAT_DXT5, TEX_FORMAT_BGRA8,
             TEX_FORMAT_RGBA16}

IsSupportedFormat(fmt) ==
    fmt \in {TEX_FORMAT_DXT1, TEX_FORMAT_DXT5, TEX_FORMAT_BGRA8, TEX_FORMAT_RGBA16}

\* the switch on tex_header.tex_format and the copy of fourcc
PixelFormatFor(fmt) ==
    LET base == [NoPixelFormat EXCEPT !.dwSize = SIZEOF_DDS_PIXELFORMAT] IN
    CASE fmt = TEX_FORMAT_DXT1 ->
            [base EXCEPT !.dwFlags = DDS_FOURCC, !.dwFourCC = Ascii4(68, 88, 84, 49)]
      [] fmt = TEX_FORMAT_DXT5 ->
            [base EXCEPT !.dwFlags = DDS_FOURCC, !.dwFourCC = Ascii4(68, 88, 84, 53)]
      [] fmt = TEX_FORMAT_BGRA8 ->
            [base EXCEPT !.dwFlags = DDS_RGBA, !.dwRGBBitCount = 32,
                         !.dwBBitMask = Le32(255), !.dwGBitMask = Le32(65280),
                         !.dwRBitMask = Le32(16711680),
                         !.dwABitMask = Le32Halves(65280, 0)]
      [] fmt = TEX_FORMAT_RGBA16 ->
            [base EXCEPT !.dwFlags = DDS_FOURCC, !.dwFourCC = Ascii4(68, 88, 49, 48)]
      [] OTHER -> base

PixelFormatBytes(pf) ==
    Le32(pf.dwSize) \o Le32(pf.dwFlags) \o pf.dwFourCC \o Le32(pf.dwRGBBitCount)
    \o pf.dwRBitMask \o pf.dwGBitMask \o pf.dwBBitMask \o pf.dwABitMask

\* faulty variant of DdsHeaderBytes: dwHeight and dwWidth take each other's value
DdsHeaderBytes_transposed(hdr, pf, count) ==
    LET mips == hdr.has_mipmaps # 0
        dwFlags == DDS_HEADER_FLAGS_TEXTURE + (IF mips THEN DDS_HEADER_FLAGS_MIPMAP ELSE 0)
        dwCaps == DDS_SURFACE_FLAGS_TEXTURE + (IF mips THEN DDS_SURFACE_FLAGS_MIPMAP ELSE 0)
        dwMipMapCount == IF mips THEN count ELSE 0
    IN  Le32(SIZEOF_DDS_HEADER) \o Le32(dwFlags) \o Le32(hdr.image_width)
        \o Le32(hdr.image_height) \o Le32(0) \o Le32(0) \o Le32(dwMipMapCount)
        \o Zeros(44) \o PixelFormatBytes(pf)
        \o Le32(dwCaps) \o Le32(0) \o Le32(0) \o Le32(0) \o Le32(0)

\* DDS_HEADER dds_header = {0} and the assignments that follow it.  The flag
\* words are or-ed; the bits of the two operands are disjoint, so the sum is the or.
DdsHeaderBytes(hdr, pf, count) ==
    LET mips == hdr.has_mipmaps # 0
        dwFlags == DDS_HEADER_FLAGS_TEXTURE + (IF mips THEN DDS_HEADER_FLAGS_MIPMAP ELSE 0)
        dwCaps == DDS_SURFACE_FLAGS_TEXTURE + (IF mips THEN DDS_SURFACE_FLAGS_MIPMAP ELSE 0)
        dwMipMapCount == IF mips THEN count ELSE 0
    IN  Le32(SIZEOF_DDS_HEADER) \o Le32(dwFlags) \o Le32(hdr.image_height)
        \o Le32(hdr.image_width) \o Le32(0) \o Le32(0) \o Le32(dwMipMapCount)
        \o Zeros(44) \o PixelFormatBytes(pf)
        \o Le32(dwCaps) \o Le32(0) \o Le32(0) \o Le32(0) \o Le32(0)

\* dx10_header[20]
Dx10HeaderBytes ==
    [k \in 1..DX10_HEADER_SIZE |->
        CASE k = 1 -> 13 [] k = 5 -> 3 [] k = 13 -> 1 [] k = 17 -> 1 [] OTHER -> 0]

(***************************************************************************)
(* tex_to_dds_bytes, one action per stretch of the function between two    *)
(* points where it may return.                                             *)
(***************************************************************************)
binIdle ==
    /\ impl = "none" /\ doc = <<>> /\ bpc = "idle" /\ entries_map = <<>>
    /\ results = <<>> /\ idx = 0 /\ log = <<>> /\ out = <<>>

InitTex ==
    /\ dll \in {"ritoddstex_dll", "lol_native"}
    /\ \E magic \in Magics, w \in Dims, h \in Dims, fmt \in Formats,
          mips \in MipFlags, flen \in 0..(SIZEOF_TEX_HEADER + MaxPayload) :
          \* a file the header check rejects is varied in its format byte only
          /\ (magic = TEX_MAGIC /\ flen >= SIZEOF_TEX_HEADER) \/ (w = 1 /\ h = 1)
          /\ file = Take(HeaderBytes(magic, w, h, fmt, mips) \o PayloadBytes(MaxPayload), flen)
    /\ pc = "fopen"
    /\ tex_file = "null"
    /\ file_size = 0
    /\ tex_header = NoHeader
    /\ ddspf = NoPixelFormat
    /\ need_dx10 = FALSE
    /\ mipmap_count = 0
    /\ tex_data_size = 0
    /\ header_size = 0
    /\ total_size = 0
    /\ dds_data = <<>>
    /\ dds_state = "none"
    /\ written = {}
    /\ ptr = 0
    /\ tex_data = <<>>
    /\ tex_state = "none"
    /\ current_offset = 0
    /\ i = 0
    /\ copies = <<>>
    /\ ret = 1          \* no status yet: every status the function returns is <= 0
    /\ out_data = Unset
    /\ out_size = Unset
    /\ binIdle

\* return <status> on a path that hands nothing to the caller
Return(status) ==
    /\ ret' = status
    /\ pc' = "done"
    /\ UNCHANGED <<out_data, out_size>>

\* fopen, fseek, ftell, rewind
TexOpen ==
    /\ pc = "fopen"
    /\ \/ /\ Return(-1)
          /\ UNCHANGED <<tex_file, file_size>>
       \/ /\ tex_file' = "open"
          /\ file_size' = Len(file)
          /\ pc' = "header"
          /\ UNCHANGED <<ret, out_data, out_size>>
    /\ UNCHANGED <<dll, file, tex_header, ddspf, need_dx10, mipmap_count, tex_data_size,
                   header_size, total_size, dds_data, dds_state, written, ptr, tex_data,
                   tex_state, current_offset, i, copies>>
    /\ UNCHANGED binVars

\* Read and validate TEX header
TexReadHeader ==
    /\ pc = "header"
    /\ IF file_size < SIZEOF_TEX_HEADER
       THEN /\ tex_file' = "closed"
            /\ Return(-2)
            /\ UNCHANGED tex_header
       ELSE /\ tex_header' = ParseHeader(Take(file, SIZEOF_TEX_HEADER))
            /\ IF ~MagicMatches(tex_header')
               THEN /\ tex_file' = "closed"
                    /\ Return(-2)
               ELSE /\ pc' = "format"
                    /\ UNCHANGED <<tex_file, ret, out_data, out_size>>
    /\ UNCHANGED <<dll, file, file_size, ddspf, need_dx10, mipmap_count, tex_data_size,
                   header_size, total_size, dds_data, dds_state, written, ptr, tex_data,
                   tex_state, current_offset, i, copies>>
    /\ UNCHANGED binVars

\* Setup DDS pixel format
TexSwitchFormat ==
    /\ pc = "format"
    /\ IF IsSupportedFormat(tex_header.tex_format)
       THEN /\ ddspf' = PixelFormatFor(tex_header.tex_format)
            /\ need_dx10' = (tex_header.tex_format = TEX_FORMAT_RGBA16)
            /\ pc' = "malloc_dds"
            /\ UNCHANGED <<tex_file, ret, out_data, out_size>>
       ELSE /\ ddspf' = [NoPixelFormat EXCEPT !.dwSize = SIZEOF_DDS_PIXELFORMAT]
            /\ tex_file' = "closed"
            /\ Return(-3)
            /\ UNCHANGED need_dx10
    /\ UNCHANGED <<dll, file, file_size, tex_header, mipmap_count, tex_data_size,
                   header_size, total_size, dds_data, dds_state, written, ptr, tex_data,
                   tex_state, current_offset, i, copies>>
    /\ UNCHANGED binVars

\* Setup DDS header, calculate output size, allocate output buffer
TexAllocOut ==
    /\ pc = "malloc_dds"
    /\ mipmap_count' = IF tex_header.has_mipmaps # 0
                       THEN MipCount(dll, tex_header.image_width, tex_header.image_height)
                       ELSE 0
    /\ tex_data_size' = file_size - SIZEOF_TEX_HEADER
    /\ header_size' = 4 + SIZEOF_DDS_HEADER + (IF need_dx10 THEN DX10_HEADER_SIZE ELSE 0)
    /\ total_size' = header_size' + tex_data_size'
    /\ \/ /\ tex_file' = "closed"
          /\ Return(-4)
          /\ UNCHANGED <<dds_data, dds_state>>
       \/ /\ \E g \in Fills : dds_data' = [k \in 1..total_size' |-> g]
          /\ dds_state' = "live"
          /\ pc' = "write_headers"
          /\ UNCHANGED <<tex_file, ret, out_data, out_size>>
    /\ UNCHANGED <<dll, file, file_size, tex_header, ddspf, need_dx10, written, ptr,
                   tex_data, tex_state, current_offset, i, copies>>
    /\ UNCHANGED binVars

\* Write DDS magic, DDS header and, if needed, the DX10 header
TexWriteHeaders ==
    /\ pc = "write_headers"
    /\ LET hdr == DDS_MAGIC \o DdsHeaderBytes(tex_header, ddspf, mipmap_count)
                  \o (IF need_dx10 THEN Dx10HeaderBytes ELSE <<>>)
       IN  /\ dds_data' = Memcpy(dds_data, 0, hdr, 0, Len(hdr))
           /\ written' = written \cup 0..(Len(hdr) - 1)
           /\ ptr' = Len(hdr)
    /\ pc' = "malloc_tex"
    /\ UNCHANGED <<dll, file, tex_file, file_size, tex_header, ddspf, need_dx10,
                   mipmap_count, tex_data_size, header_size, total_size, dds_state,
                   tex_data, tex_state, current_offset, i, copies, ret, out_data, out_size>>
    /\ UNCHANGED binVars

\* faulty variant of TexAllocData: the failure path returns without free(dds_data)
TexAllocData_leak ==
    /\ pc = "malloc_tex"
    /\ \/ /\ tex_file' = "closed"
          /\ Return(-4)
          /\ UNCHANGED <<tex_data, tex_state, dds_state>>
       \/ /\ tex_state' = "live"
          /\ pc' = "fread"
          /\ UNCHANGED <<tex_data, dds_state, tex_file, ret, out_data, out_size>>
    /\ UNCHANGED <<dll, file, file_size, tex_header, ddspf, need_dx10, mipmap_count,
                   tex_data_size, header_size, total_size, dds_data, written, ptr,
                   current_offset, i, copies>>
    /\ UNCHANGED binVars

\* uint8_t* tex_data = malloc(tex_data_size)
TexAllocData ==
    /\ pc = "malloc_tex"
    /\ \/ /\ dds_state' = "freed"
          /\ tex_file' = "closed"
          /\ Return(-4)
          /\ UNCHANGED <<tex_data, tex_state>>
       \/ /\ tex_state' = "live"     \* its bytes are first read after fread has set them
          /\ pc' = "fread"
          /\ UNCHANGED <<tex_data, dds_state, tex_file, ret, out_data, out_size>>
    /\ UNCHANGED <<dll, file, file_size, tex_header, ddspf, need_dx10, mipmap_count,
                   tex_data_size, header_size, total_size, dds_data, written, ptr,
                   current_offset, i, copies>>
    /\ UNCHANGED binVars

\* faulty variant of TexReadData: the payload is read from the start of the
\* file, as if the header had not been consumed
TexReadData_rewound ==
    /\ pc = "fread"
    /\ \/ /\ tex_data_size > 0
          /\ tex_state' = "freed"
          /\ dds_state' = "freed"
          /\ tex_file' = "closed"
          /\ Return(-2)
          /\ UNCHANGED tex_data
       \/ /\ tex_data' = SubSeq(file, 1, tex_data_size)
          /\ tex_file' = "closed"
          /\ pc' = "copy"
          /\ UNCHANGED <<tex_state, dds_state, ret, out_data, out_size>>
    /\ UNCHANGED <<dll, file, file_size, tex_header, ddspf, need_dx10, mipmap_count,
                   tex_data_size, header_size, total_size, dds_data, written, ptr,
                   current_offset, i, copies>>
    /\ UNCHANGED binVars

\* fread(tex_data, 1, tex_data_size, tex_file), then fclose
TexReadData ==
    /\ pc = "fread"
    /\ \/ /\ tex_data_size > 0       \* a short read
          /\ tex_state' = "freed"
          /\ dds_state' = "freed"
          /\ tex_file' = "closed"
          /\ Return(-2)
          /\ UNCHANGED tex_data
       \/ /\ tex_data' = SubSeq(file, SIZEOF_TEX_HEADER + 1, SIZEOF_TEX_HEADER + tex_data_size)
          /\ tex_file' = "closed"
          /\ pc' = "copy"
          /\ UNCHANGED <<tex_state, dds_state, ret, out_data, out_size>>
    /\ UNCHANGED <<dll, file, file_size, tex_header, ddspf, need_dx10, mipmap_count,
                   tex_data_size, header_size, total_size, dds_data, written, ptr,
                   current_offset, i, copies>>
    /\ UNCHANGED binVars

\* if (tex_header.has_mipmaps && mipmap_count > 0) ... else straight copy
TexCopy ==
    /\ pc = "copy"
    /\ IF tex_header.has_mipmaps # 0 /\ mipmap_count > 0
       THEN /\ current_offset' = tex_data_size
            /\ i' = 0
            /\ pc' = "loop"
            /\ UNCHANGED <<dds_data, written>>
       ELSE /\ dds_data' = Memcpy(dds_data, ptr, tex_data, 0, tex_data_size)
            /\ written' = written \cup ptr..(ptr + tex_data_size - 1)
            /\ pc' = "finish"
            /\ UNCHANGED <<current_offset, i>>
    /\ UNCHANGED <<dll, file, tex_file, file_size, tex_header, ddspf, need_dx10,
                   mipmap_count, tex_data_size, header_size, total_size, dds_state, ptr,
                   tex_data, tex_state, copies, ret, out_data, out_size>>
    /\ UNCHANGED binVars

\* one pass of for (i = 0; i < mipmap_count; i++).  A memcpy that leaves
\* either buffer is undefined behaviour: the process faults, or it goes on
\* with the rest of the output block holding anything.
TexMipStep ==
    /\ pc = "loop"
    /\ IF i < mipmap_count
       THEN LET mip_size == MipSize(tex_header, i)
                offset == SubFromOffset(current_offset, mip_size)
            IN  /\ current_offset' = offset
                /\ IF offset < 0
                   THEN /\ pc' = "finish"       \* break
                        /\ UNCHANGED <<dds_data, written, ptr, i, copies>>
                   ELSE IF CopyInBounds(ptr, offset, mip_size, tex_data_size, total_size)
                   THEN /\ dds_data' = Memcpy(dds_data, ptr, tex_data, offset, mip_size.lo)
                        /\ written' = written \cup ptr..(ptr + mip_size.lo - 1)
                        /\ copies' = Append(copies, <<ptr, offset, mip_size.lo>>)
                        /\ ptr' = ptr + mip_size.lo
                        /\ i' = i + 1
                        /\ pc' = "loop"
                   ELSE /\ \/ pc' = "crashed" /\ UNCHANGED dds_data
                           \/ /\ pc' = "finish"
                              /\ \E g \in Fills :
                                    dds_data' = [k \in 1..total_size |->
                                                    IF k > ptr THEN g ELSE dds_data[k]]
                        /\ copies' = Append(copies, <<ptr, offset, -1>>)
                        /\ UNCHANGED <<written, ptr, i>>
       ELSE /\ pc' = "finish"
            /\ UNCHANGED <<dds_data, written, ptr, i, copies, current_offset>>
    /\ UNCHANGED <<dll, file, tex_file, file_size, tex_header, ddspf, need_dx10,
                   mipmap_count, tex_data_size, header_size, total_size, dds_state,
                   tex_data, tex_state, ret, out_data, out_size>>
    /\ UNCHANGED binVars

\* free(tex_data); *out_data = dds_data; *out_size = total_size; return 0
TexFinish ==
    /\ pc = "finish"
    /\ tex_state' = "freed"
    /\ out_data' = dds_data
    /\ out_size' = total_size
    /\ ret' = 0
    /\ pc' = "done"
    /\ UNCHANGED <<dll, file, tex_file, file_size, tex_header, ddspf, need_dx10,
                   mipmap_count, tex_data_size, header_size, total_size, dds_data,
                   dds_state, written, ptr, tex_data, current_offset, i, copies>>
    /\ UNCHANGED binVars

NextTex ==
    \/ TexOpen
    \/ TexReadHeader
    \/ TexSwitchFormat
    \/ TexAllocOut
    \/ TexWriteHeaders
    \/ TexAllocData
    \/ TexReadData
    \/ TexCopy
    \/ TexMipStep
    \/ TexFinish

SpecTex == InitTex /\ [][NextTex]_vars

(***************************************************************************)
(* The converter on headers over the whole 16-bit range of image_width and *)
(* image_height, with short payloads.                                      *)
(***************************************************************************)
MaxShort == 24    \* the longest payload given with such a header

WideDims == {0, 1, 2, 3, 4, 7, 8, 255, 256, 2^14 - 1, 2^14, 2^15, 3 * 2^14, 2^16 - 1}
ShortLens == {0, 1, 16, MaxShort}

InitMip ==
    /\ dll \in {"ritoddstex_dll", "lol_native"}
    /\ \E w \in WideDims, h \in WideDims, fmt \in Formats \ {255},
          mips \in MipFlags, n \in ShortLens :
          file = HeaderBytes(TEX_MAGIC, w, h, fmt, mips) \o PayloadBytes(n)
    /\ pc = "fopen"
    /\ tex_file = "null"
    /\ file_size = 0
    /\ tex_header = NoHeader
    /\ ddspf = NoPixelFormat
    /\ need_dx10 = FALSE
    /\ mipmap_count = 0
    /\ tex_data_size = 0
    /\ header_size = 0
    /\ total_size = 0
    /\ dds_data = <<>>
    /\ dds_state = "none"
    /\ written = {}
    /\ ptr = 0
    /\ tex_data = <<>>
    /\ tex_state = "none"
    /\ current_offset = 0
    /\ i = 0
    /\ copies = <<>>
    /\ ret = 1
    /\ out_data = Unset
    /\ out_size = Unset
    /\ binIdle

SpecMip == InitMip /\ [][NextTex]_vars

(***************************************************************************)
(* The decoded object graph (ritobin::Value).  Every value is a record     *)
(* [t, s, h, items]: t the variant, s the text of a String, h the 32-bit   *)
(* hash of a Hash or Link, items the fields of an Embed (records           *)
(* [hash, value]), the elements of a List or List2 (records [value]) or    *)
(* the pairs of a Map (records [key, value]).  Field-name hashes are kept  *)
(* as opaque names: the code only tests them for equality.                 *)
(***************************************************************************)
HASH_SKIN_MESH_PROPERTIES == "0x45ff5904"
HASH_TEXTURE == "0x3c6468f4"
HASH_MATERIAL_OVERRIDE == "0x24725910"
HASH_SUBMESH == "0xaad7612c"
HASH_MATERIAL_LINK == "0xd2e4d060"
HASH_SAMPLER_VALUES == "0x0a6f0eb5"
HASH_PROP_NAME == "0xb311d4ef"
HASH_PROP_VALUE == "0xf0a363e3"
HASH_UNRELATED == "0x00000001"

String(s) == [t |-> "String", s |-> s, h |-> 0, items |-> <<>>]
Hash(h) == [t |-> "Hash", s |-> "", h |-> h, items |-> <<>>]
Link(h) == [t |-> "Link", s |-> "", h |-> h, items |-> <<>>]
Embed(items) == [t |-> "Embed", s |-> "", h |-> 0, items |-> items]
List(items) == [t |-> "List", s |-> "", h |-> 0, items |-> items]
List2(items) == [t |-> "List2", s |-> "", h |-> 0, items |-> items]
Map(items) == [t |-> "Map", s |-> "", h |-> 0, items |-> items]
Field(hash, value) == [hash |-> hash, value |-> value]
Element(value) == [value |-> value]
Pair(key, value) == [key |-> key, value |-> value]
Bin(sections) == [sections |-> sections]

NullField == Field("nullptr", String(""))
EmptyMap == [k \in {} |-> 0]
Put(m, k, v) == [x \in DOMAIN m \cup {k} |-> IF x = k THEN v ELSE m[x]]

(***************************************************************************)
(* Helpers shared by the extractors.                                       *)
(***************************************************************************)
\* get_string (bin_parser.cpp), get_string_value (lol_native.cpp)
get_string(val) == IF val.t = "String" THEN val.s ELSE ""

\* faulty variant of get_link: no value yields an id
get_link_none(val) == IF val.t = "Link" THEN 0 ELSE 0

\* bin_parser.cpp
get_link(val) == IF val.t = "Link" THEN val.h ELSE 0

\* lol_native.cpp
get_hash_value(val) ==
    IF val.t = "Hash" THEN val.h
    ELSE IF val.t = "Link" THEN val.h
    ELSE 0

\* the first field whose key has the hash, or nullptr
find_field(embed, hash) ==
    LET hits == {k \in 1..Len(embed.items) : embed.items[k].hash = hash}
    IN  IF hits = {} THEN NullField
        ELSE embed.items[CHOOSE k \in hits : \A j \in hits : k <= j]

\* faulty variant of FindEntries: without an "entries" section, any Map section is taken
FindEntries_any(bin) ==
    LET maps == {n \in DOMAIN bin.sections : bin.sections[n].t = "Map"}
    IN  IF "entries" \in maps THEN <<bin.sections["entries"]>>
        ELSE IF maps # {} THEN <<bin.sections[CHOOSE n \in maps : TRUE]>>
        ELSE <<>>

\* bin.sections.find("entries") and std::get_if<ritobin::Map>: <<the Map>>, or <<>>
FindEntries(bin) ==
    IF "entries" \notin DOMAIN bin.sections THEN <<>>
    ELSE IF bin.sections["entries"].t # "Map" THEN <<>>
    ELSE <<bin.sections["entries"]>>

\* faulty variant of IndexPair: the key's hash is taken whatever variant the key is
IndexPair_anykey(map, pair) ==
    IF pair.value.t = "Embed" THEN Put(map, pair.key.h, pair.value) ELSE map

\* one pass of the loop that builds entries_map
IndexPair(map, pair) ==
    IF pair.key.t = "Hash" /\ pair.value.t = "Embed"
    THEN Put(map, pair.key.h, pair.value)
    ELSE map

RECURSIVE BuildIndex(_, _, _)
\* Build hash->entry map, from pair k on
BuildIndex(items, k, map) ==
    IF k > Len(items) THEN map
    ELSE BuildIndex(items, k + 1, IndexPair(map, items[k]))

\* faulty variant of ShouldFollowLink: the link is followed whenever there is one
ShouldFollowLink_always(tex_path, linked_mat_hash) == linked_mat_hash # 0

\* if (tex_path.empty() && linked_mat_hash != 0)
ShouldFollowLink(tex_path, linked_mat_hash) == tex_path = "" /\ linked_mat_hash # 0

\* faulty variant of WriteBase: an earlier "BASE" is kept
WriteBase_first(st, e, smp, tex) ==
    IF tex # "" /\ "BASE" \notin DOMAIN st.results
    THEN [results |-> Put(st.results, "BASE", tex),
          log |-> Append(st.log, [kind |-> "base", entry |-> e, elem |-> smp,
                                  name |-> "BASE", path |-> tex, recorded |-> TRUE])]
    ELSE st

\* if (!tex.empty()) results["BASE"] = tex
WriteBase(st, e, smp, tex) ==
    IF tex # ""
    THEN [results |-> Put(st.results, "BASE", tex),
          log |-> Append(st.log, [kind |-> "base", entry |-> e, elem |-> smp,
                                  name |-> "BASE", path |-> tex, recorded |-> TRUE])]
    ELSE st

\* faulty variant of WriteOverride: a name that has an entry keeps it
WriteOverride_keep(st, e, elem, mat_name, tex_path) ==
    LET rec == mat_name # "" /\ tex_path # "" /\ mat_name \notin DOMAIN st.results IN
    [results |-> IF rec THEN Put(st.results, mat_name, tex_path) ELSE st.results,
     log |-> Append(st.log, [kind |-> "override", entry |-> e, elem |-> elem,
                             name |-> mat_name, path |-> tex_path, recorded |-> rec])]

\* if (!mat_name.empty() && !tex_path.empty()) results[mat_name] = tex_path
WriteOverride(st, e, elem, mat_name, tex_path) ==
    LET rec == mat_name # "" /\ tex_path # "" IN
    [results |-> IF rec THEN Put(st.results, mat_name, tex_path) ELSE st.results,
     log |-> Append(st.log, [kind |-> "override", entry |-> e, elem |-> elem,
                             name |-> mat_name, path |-> tex_path, recorded |-> rec])]

(***************************************************************************)
(* extract_textures of bin_parser.cpp.                                     *)
(***************************************************************************)
\* the lambda process_prop: <<PROP_VALUE>> when the element matches, else <<>>
BP_process_prop(item_val) ==
    IF item_val.t # "Embed" THEN <<>>
    ELSE LET pn == find_field(item_val, HASH_PROP_NAME)
             pv == find_field(item_val, HASH_PROP_VALUE)
             p_name == IF pn # NullField THEN get_string(pn.value) ELSE ""
             p_val == IF pv # NullField THEN get_string(pv.value) ELSE ""
         IN  IF p_name = "Diffuse_Texture" /\ p_val # "" THEN <<p_val>> ELSE <<>>

RECURSIVE BP_ScanProps(_, _)
\* for (item : items) if (process_prop(item.value)) break;
BP_ScanProps(items, k) ==
    IF k > Len(items) THEN ""
    ELSE LET hit == BP_process_prop(items[k].value)
         IN  IF hit # <<>> THEN hit[1] ELSE BP_ScanProps(items, k + 1)

\* the body of "Follow material link": the new tex_path
BP_FollowLink(map, linked_mat_hash) ==
    IF linked_mat_hash \notin DOMAIN map THEN ""
    ELSE LET mat_entry == map[linked_mat_hash]
             props_field == find_field(mat_entry, HASH_SAMPLER_VALUES)
         IN  IF props_field = NullField THEN ""
             ELSE IF props_field.value.t = "List" THEN BP_ScanProps(props_field.value.items, 1)
             ELSE IF props_field.value.t = "List2" THEN BP_ScanProps(props_field.value.items, 1)
             ELSE ""

\* one pass of the loop over override_list->items
BP_ProcessOverride(st, e, override_item, map) ==
    IF override_item.value.t # "Embed" THEN st
    ELSE LET override_embed == override_item.value
             name_field == find_field(override_embed, HASH_SUBMESH)
             tex_field == find_field(override_embed, HASH_TEXTURE)
             mat_field == find_field(override_embed, HASH_MATERIAL_LINK)
             mat_name == IF name_field # NullField THEN get_string(name_field.value) ELSE ""
             direct == IF tex_field # NullField THEN get_string(tex_field.value) ELSE ""
             linked_mat_hash == IF mat_field # NullField THEN get_link(mat_field.value) ELSE 0
             tex_path == IF ShouldFollowLink(direct, linked_mat_hash)
                         THEN BP_FollowLink(map, linked_mat_hash)
                         ELSE direct
         IN  WriteOverride(st, e, override_embed, mat_name, tex_path)

RECURSIVE BP_Overrides(_, _, _, _, _)
BP_Overrides(st, e, items, k, map) ==
    IF k > Len(items) THEN st
    ELSE BP_Overrides(BP_ProcessOverride(st, e, items[k], map), e, items, k + 1, map)

\* one pass of the loop "Find skinMeshProperties entries", for pair e
BP_ProcessEntry(st, e, pair, map) ==
    IF pair.value.t # "Embed" THEN st
    ELSE LET smp_field == find_field(pair.value, HASH_SKIN_MESH_PROPERTIES) IN
         IF smp_field = NullField THEN st
         ELSE IF smp_field.value.t # "Embed" THEN st
         ELSE LET skin_mesh == smp_field.value
                  tex_field == find_field(skin_mesh, HASH_TEXTURE)
                  st1 == IF tex_field # NullField
                         THEN WriteBase(st, e, skin_mesh, get_string(tex_field.value))
                         ELSE st
                  mo_field == find_field(skin_mesh, HASH_MATERIAL_OVERRIDE)
              IN  IF mo_field = NullField THEN st1
                  ELSE IF mo_field.value.t # "List" THEN st1
                  ELSE BP_Overrides(st1, e, mo_field.value.items, 1, map)

(***************************************************************************)
(* extract_textures of lol_native.cpp.                                     *)
(***************************************************************************)
RECURSIVE LN_ScanProp(_, _, _)
\* for (pf : prop_embed->items): the last PROP_NAME and PROP_VALUE fields win
LN_ScanProp(items, k, acc) ==
    IF k > Len(items) THEN acc
    ELSE LET pf == items[k]
             a1 == IF pf.hash = HASH_PROP_NAME
                   THEN [acc EXCEPT !.p_name = get_string(pf.value)] ELSE acc
             a2 == IF pf.hash = HASH_PROP_VALUE
                   THEN [a1 EXCEPT !.p_val = get_string(pf.value)] ELSE a1
         IN  LN_ScanProp(items, k + 1, a2)

RECURSIVE LN_ScanProps(_, _)
\* for (prop_elem : props_list->items) ... break on the first match
LN_ScanProps(items, k) ==
    IF k > Len(items) THEN ""
    ELSE IF items[k].value.t # "Embed" THEN LN_ScanProps(items, k + 1)
    ELSE LET p == LN_ScanProp(items[k].value.items, 1, [p_name |-> "", p_val |-> ""])
         IN  IF p.p_name = "Diffuse_Texture" /\ p.p_val # "" THEN p.p_val
             ELSE LN_ScanProps(items, k + 1)

\* the body of "try to follow material link": the new tex_path
LN_FollowLink(map, linked_mat_hash) ==
    IF linked_mat_hash \notin DOMAIN map THEN ""
    ELSE LET mat_entry == map[linked_mat_hash]
             props_field == find_field(mat_entry, HASH_SAMPLER_VALUES)
         IN  IF props_field = NullField THEN ""
             ELSE IF props_field.value.t # "List" THEN ""
             ELSE LN_ScanProps(props_field.value.items, 1)

RECURSIVE LN_ScanOverride(_, _, _)
\* for (prop : override_embed->items): the last field of each key wins
LN_ScanOverride(items, k, acc) ==
    IF k > Len(items) THEN acc
    ELSE LET prop == items[k]
             a1 == IF prop.hash = HASH_SUBMESH
                   THEN [acc EXCEPT !.mat_name = get_string(prop.value)] ELSE acc
             a2 == IF prop.hash = HASH_TEXTURE
                   THEN [a1 EXCEPT !.tex_path = get_string(prop.value)] ELSE a1
             a3 == IF prop.hash = HASH_MATERIAL_LINK
                   THEN [a2 EXCEPT !.linked_mat_hash = get_hash_value(prop.value)] ELSE a2
         IN  LN_ScanOverride(items, k + 1, a3)

\* one pass of the loop over override_list->items
LN_ProcessOverride(st, e, override_elem, map) ==
    IF override_elem.value.t # "Embed" THEN st
    ELSE LET override_embed == override_elem.value
             acc == LN_ScanOverride(override_embed.items, 1,
                        [mat_name |-> "", tex_path |-> "", linked_mat_hash |-> 0])
             tex_path == IF ShouldFollowLink(acc.tex_path, acc.linked_mat_hash)
                         THEN LN_FollowLink(map, acc.linked_mat_hash)
                         ELSE acc.tex_path
         IN  WriteOverride(st, e, override_embed, acc.mat_name, tex_path)

RECURSIVE LN_Overrides(_, _, _, _, _)
LN_Overrides(st, e, items, k, map) ==
    IF k > Len(items) THEN st
    ELSE LN_Overrides(LN_ProcessOverride(st, e, items[k], map), e, items, k + 1, map)

RECURSIVE LN_SubFields(_, _, _, _, _)
\* for (sub_field : skin_mesh->items)
LN_SubFields(st, e, skin_mesh, k, map) ==
    IF k > Len(skin_mesh.items) THEN st
    ELSE LET sub_field == skin_mesh.items[k]
             st1 == IF sub_field.hash = HASH_TEXTURE
                    THEN WriteBase(st, e, skin_mesh, get_string(sub_field.value))
                    ELSE st
             st2 == IF sub_field.hash = HASH_MATERIAL_OVERRIDE /\ sub_field.value.t = "List"
                    THEN LN_Overrides(st1, e, sub_field.value.items, 1, map)
                    ELSE st1
         IN  LN_SubFields(st2, e, skin_mesh, k + 1, map)

RECURSIVE LN_Fields(_, _, _, _, _)
\* for (field : entry->items)
LN_Fields(st, e, items, k, map) ==
    IF k > Len(items) THEN st
    ELSE LET field == items[k]
             st1 == IF field.hash # HASH_SKIN_MESH_PROPERTIES THEN st
                    ELSE IF field.value.t # "Embed" THEN st
                    ELSE LN_SubFields(st, e, field.value, 1, map)
         IN  LN_Fields(st1, e, items, k + 1, map)

\* one pass of the loop "Traverse entries looking for skinMeshProperties", for pair e
LN_ProcessEntry(st, e, pair, map) ==
    IF pair.value.t # "Embed" THEN st
    ELSE LN_Fields(st, e, pair.value.items, 1, map)

ProcessEntry(im, st, e, pair, map) ==
    IF im = "bin_parser" THEN BP_ProcessEntry(st, e, pair, map)
    ELSE LN_ProcessEntry(st, e, pair, map)

(***************************************************************************)
(* The documents the extractors are run on.  A document is built from a    *)
(* skin entry (an object with a SKIN_MESH_PROPERTIES field) and material   *)
(* entries.  Objects with a repeated field key are part of the domain: the *)
(* reader keeps an object's fields as a list and the two extractors read   *)
(* such an object differently.                                             *)
(***************************************************************************)
MaxProps == 2
MaxOverrides == 2
MaxEntries == 2

SeqsUpTo(S, n) == UNION {[1..k -> S] : k \in 0..n}
Elements(vals) == [k \in 1..Len(vals) |-> Element(vals[k])]
Pairs(vals) == [k \in 1..Len(vals) |-> Pair(String("k"), vals[k])]

Prop(name, value) ==
    Embed(<<Field(HASH_PROP_NAME, String(name)), Field(HASH_PROP_VALUE, String(value))>>)

PropValues ==
    { Prop("Diffuse_Texture", "a.dds"), Prop("Diffuse_Texture", "b.dds"),
      Prop("Normal_Map", "c.dds"), Prop("Diffuse_Texture", ""),
      String("c.dds"),
      Embed(<<Field(HASH_PROP_NAME, String("Normal_Map")),
              Field(HASH_PROP_NAME, String("Diffuse_Texture")),
              Field(HASH_PROP_VALUE, String("c.dds"))>>) }

SamplerValues ==
    UNION { {List(Elements(ps)), List2(Elements(ps)), Map(Pairs(ps))} :
                ps \in SeqsUpTo(PropValues, MaxProps) }
        \cup {String("a.dds")}

Material(sv) == Embed(<<Field(HASH_UNRELATED, String("m")), Field(HASH_SAMPLER_VALUES, sv)>>)
MaterialA == Material(List(<<Element(Prop("Diffuse_Texture", "a.dds"))>>))
MaterialB == Material(List(<<Element(Prop("Diffuse_Texture", "b.dds"))>>))

Materials ==
    {Material(sv) : sv \in SamplerValues}
        \cup { Embed(<<>>),
               Embed(<<Field(HASH_SAMPLER_VALUES, List(<<>>)),
                       Field(HASH_SAMPLER_VALUES, MaterialA.items[2].value)>>) }

NameFields ==
    { <<>>, <<Field(HASH_SUBMESH, String("body"))>>, <<Field(HASH_SUBMESH, String(""))>>,
      <<Field(HASH_SUBMESH, Hash(7))>>,
      <<Field(HASH_SUBMESH, String("body")), Field(HASH_SUBMESH, String("head"))>> }
TextureFields ==
    { <<>>, <<Field(HASH_TEXTURE, String("d.dds"))>>, <<Field(HASH_TEXTURE, String(""))>>,
      <<Field(HASH_TEXTURE, Hash(7))>>,
      <<Field(HASH_TEXTURE, String("")), Field(HASH_TEXTURE, String("d.dds"))>>,
      <<Field(HASH_TEXTURE, String("d.dds")), Field(HASH_TEXTURE, String(""))>> }
LinkFields ==
    { <<>>, <<Field(HASH_MATERIAL_LINK, Link(1))>>, <<Field(HASH_MATERIAL_LINK, Hash(1))>>,
      <<Field(HASH_MATERIAL_LINK, Link(0))>>, <<Field(HASH_MATERIAL_LINK, Link(2))>>,
      <<Field(HASH_MATERIAL_LINK, String("x"))>>,
      <<Field(HASH_MATERIAL_LINK, Link(2)), Field(HASH_MATERIAL_LINK, Link(1))>> }

\* every override element; each is run against the plain material entries
Overrides ==
    {Embed(n \o t \o l) : n \in {nf \in NameFields : Len(nf) <= 1},
                           t \in TextureFields, l \in LinkFields}
        \cup {Embed(n \o <<Field(HASH_MATERIAL_LINK, Link(1))>>) : n \in NameFields}

\* the override elements that are run against every material entry
LinkingOverrides ==
    {Embed(<<Field(HASH_SUBMESH, String("body"))>> \o t \o l) :
        t \in TextureFields \ {<<Field(HASH_TEXTURE, Hash(7))>>},
        l \in {<<Field(HASH_MATERIAL_LINK, Link(1))>>, <<Field(HASH_MATERIAL_LINK, Hash(1))>>}}

Override(name, texture, link) ==
    Embed(<<Field(HASH_SUBMESH, String(name))>>
            \o (IF texture = "" THEN <<>> ELSE <<Field(HASH_TEXTURE, String(texture))>>)
            \o (IF link.h = 0 THEN <<>> ELSE <<Field(HASH_MATERIAL_LINK, link)>>))

\* the override elements of the documents with several overrides
FewOverrides ==
    { Override("body", "d.dds", Link(0)), Override("body", "e.dds", Link(0)),
      Override("body", "", Link(1)), Override("head", "", Hash(1)),
      Override("head", "", Link(2)), Override("BASE", "e.dds", Link(0)),
      Override("", "d.dds", Link(1)), String("d.dds") }

Skin(fields) == Embed(<<Field(HASH_SKIN_MESH_PROPERTIES, Embed(fields))>>)
OverrideField(list) == Field(HASH_MATERIAL_OVERRIDE, list)
TextureField(text) == Field(HASH_TEXTURE, String(text))

LinkDoc(o, m) ==
    Bin("entries" :> Map(<<Pair(Hash(9), Skin(<<OverrideField(List(<<Element(o)>>))>>)),
                           Pair(Hash(1), m)>>))

\* one skin entry with one override, and the material entry it may link to
LinkDocs ==
    {LinkDoc(o, m) : o \in Overrides, m \in {MaterialA, Embed(<<>>)}}
        \cup {LinkDoc(o, m) : o \in LinkingOverrides, m \in Materials}

\* one skin entry with up to MaxOverrides overrides, in either list encoding
OverrideDocs ==
    UNION { { Bin("entries" :> Map(<<Pair(Hash(9), Skin(f)), Pair(Hash(1), MaterialA)>>)) :
                f \in { <<OverrideField(List(Elements(os)))>>,
                        <<OverrideField(List2(Elements(os)))>>,
                        <<OverrideField(Map(Pairs(os)))>>,
                        <<TextureField("base.dds"), OverrideField(List(Elements(os)))>>,
                        <<OverrideField(List(Elements(os))), TextureField("base.dds")>>,
                        <<OverrideField(List2(<<>>)), OverrideField(List(Elements(os)))>> } } :
            os \in SeqsUpTo(FewOverrides, MaxOverrides) }

LinkedSkin == Skin(<<OverrideField(List(<<Element(Override("body", "", Link(1)))>>))>>)

\* the pairs of the documents with several entries
EntryPairs ==
    { Pair(Hash(8), Skin(<<TextureField("base.dds")>>)),
      Pair(Hash(9), Skin(<<TextureField("base2.dds")>>)),
      Pair(Hash(9), Skin(<<TextureField("")>>)),
      Pair(Hash(9), Skin(<<Field(HASH_TEXTURE, Hash(7))>>)),
      Pair(Hash(9), Skin(<<TextureField("base.dds"), TextureField("base2.dds")>>)),
      Pair(Hash(9), Embed(<<Field(HASH_SKIN_MESH_PROPERTIES, String("base.dds")),
                            Field(HASH_SKIN_MESH_PROPERTIES,
                                  Embed(<<TextureField("base2.dds")>>))>>)),
      Pair(Hash(9), Embed(<<TextureField("base.dds")>>)),
      Pair(Hash(9), String("base.dds")),
      Pair(Hash(9), LinkedSkin),
      Pair(String("skin"), LinkedSkin),
      Pair(Hash(1), MaterialA),
      Pair(Hash(1), MaterialB),
      Pair(Link(1), MaterialA),
      Pair(String("1"), MaterialA),
      Pair(Hash(1), List(MaterialA.items)),
      Pair(Hash(2), MaterialB) }

EntryDocs == {Bin("entries" :> Map(ps)) : ps \in SeqsUpTo(EntryPairs, MaxEntries)}

GoodEntries == Map(<<Pair(Hash(9), Skin(<<TextureField("base.dds"),
                        OverrideField(List(<<Element(Override("body", "d.dds", Link(0)))>>))>>))>>)

\* documents without an "entries" section, or whose "entries" is not a Map
BadDocs ==
    { Bin(<<>>),
      Bin("patches" :> GoodEntries),
      Bin("Entries" :> GoodEntries),
      Bin(("type" :> String("PROP")) @@ ("linked" :> List(<<>>))),
      Bin("entries" :> List(Elements(<<GoodEntries.items[1].value>>))),
      Bin("entries" :> List2(Elements(<<GoodEntries.items[1].value>>))),
      Bin("entries" :> GoodEntries.items[1].value),
      Bin(("entries" :> String("base.dds")) @@ ("patches" :> GoodEntries)) }

Docs == LinkDocs \cup OverrideDocs \cup EntryDocs \cup BadDocs
\* extract_textures of ritobin_dll.cpp is, line for line, that of lol_native.cpp
Impls == {"bin_parser", "lol_native", "ritobin_dll"}

texIdle ==
    /\ dll = "none" /\ file = <<>> /\ pc = "idle" /\ tex_file = Unset /\ file_size = 0
    /\ tex_header = NoHeader /\ ddspf = NoPixelFormat /\ need_dx10 = FALSE
    /\ mipmap_count = 0 /\ tex_data_size = 0 /\ header_size = 0 /\ total_size = 0
    /\ dds_data = <<>> /\ dds_state = Unset /\ written = {} /\ ptr = 0
    /\ tex_data = <<>> /\ tex_state = Unset /\ current_offset = 0 /\ i = 0
    /\ copies = <<>> /\ ret = 1 /\ out_data = Unset /\ out_size = Unset

\* a decoded document is handed to extract_textures of one of the builds
InitBin ==
    /\ impl \in Impls
    /\ doc \in Docs
    /\ bpc = "start"
    /\ entries_map = EmptyMap
    /\ results = EmptyMap
    /\ idx = 0
    /\ log = <<>>
    /\ out = <<>>
    /\ texIdle

\* the "entries" section is looked up; without it, or when it is not a Map, return ""
BinStart ==
    /\ bpc = "start"
    /\ IF FindEntries(doc) = <<>>
       THEN bpc' = "done" /\ out' = <<>>
       ELSE bpc' = "index" /\ UNCHANGED out
    /\ UNCHANGED <<impl, doc, entries_map, results, idx, log, texVars>>

\* the first loop over the pairs fills entries_map
BinBuildIndex ==
    /\ bpc = "index"
    /\ entries_map' = BuildIndex(FindEntries(doc)[1].items, 1, EmptyMap)
    /\ bpc' = "scan"
    /\ UNCHANGED <<impl, doc, results, idx, log, out, texVars>>

\* one pass of the second loop over the pairs
BinEntry ==
    /\ bpc = "scan"
    /\ idx < Len(FindEntries(doc)[1].items)
    /\ LET st == ProcessEntry(impl, [results |-> results, log |-> log], idx + 1,
                              FindEntries(doc)[1].items[idx + 1], entries_map)
       IN  results' = st.results /\ log' = st.log
    /\ idx' = idx + 1
    /\ UNCHANGED <<impl, doc, bpc, entries_map, out, texVars>>

\* the lines "key=value\n" of an unordered_map, in an order the build chooses
Serializations(map) ==
    {ln \in [1..Cardinality(DOMAIN map) -> {<<k, map[k]>> : k \in DOMAIN map}] :
        \A a, b \in DOMAIN ln : a # b => ln[a] # ln[b]}

\* the second loop is over; the result is written out
BinSerialize ==
    /\ bpc = "scan"
    /\ idx = Len(FindEntries(doc)[1].items)
    /\ out' \in Serializations(results)
    /\ bpc' = "done"
    /\ UNCHANGED <<impl, doc, entries_map, results, idx, log, texVars>>

NextBin == BinStart \/ BinBuildIndex \/ BinEntry \/ BinSerialize

SpecBin == InitBin /\ [][NextBin]_vars

(***************************************************************************)
(* What the claims about the converter speak of, read off the input file   *)
(* and the returned buffer.                                                *)
(***************************************************************************)
Returned == pc = "done"
Opened == tex_file # "null"
HeaderComplete == Len(file) >= SIZEOF_TEX_HEADER
MagicOk == HeaderComplete /\ file[1] = 84 /\ file[2] = 69 /\ file[3] = 88
InWidth == U16At(file, 4)
InHeight == U16At(file, 6)
InFormat == file[10]
InHasMipmaps == file[12] # 0
InPayload == SubSeq(file, SIZEOF_TEX_HEADER + 1, Len(file))
Recognized == {TEX_FORMAT_DXT1, TEX_FORMAT_DXT5, TEX_FORMAT_BGRA8, TEX_FORMAT_RGBA16}
ValidInput == HeaderComplete /\ MagicOk /\ InFormat \in Recognized
OutHeaderLen == 4 + 124 + (IF InFormat = TEX_FORMAT_RGBA16 THEN 20 ELSE 0)
OutPayload == SubSeq(out_data, OutHeaderLen + 1, Len(out_data))

\* the level sizes as section 4.2 of the specification states them
CeilDiv(a, b) == (a + b - 1) \div b
RECURSIVE FloorLog2(_)
FloorLog2(n) == IF n <= 1 THEN 0 ELSE 1 + FloorLog2(n \div 2)
SpecLevels == IF MAX(InWidth, InHeight) = 0 THEN 0 ELSE FloorLog2(MAX(InWidth, InHeight)) + 1
SpecBlockEdge == IF InFormat \in {TEX_FORMAT_DXT1, TEX_FORMAT_DXT5} THEN 4 ELSE 1
SpecBytesPerBlock ==
    CASE InFormat = TEX_FORMAT_DXT1 -> 8
      [] InFormat = TEX_FORMAT_DXT5 -> 16
      [] InFormat = TEX_FORMAT_BGRA8 -> 4
      [] OTHER -> 8
SpecSize(lvl) ==
    SpecBytesPerBlock * CeilDiv(MAX(Shr(InHeight, lvl), 1), SpecBlockEdge)
                      * CeilDiv(MAX(Shr(InWidth, lvl), 1), SpecBlockEdge)
RECURSIVE SpecSizeSum(_)
\* size_0 + ... + size_{n-1}
SpecSizeSum(n) == IF n = 0 THEN 0 ELSE SpecSizeSum(n - 1) + SpecSize(n - 1)
\* level lvl of the source: the chunk that ends SpecSizeSum(lvl) bytes before the end
SpecLevelChunk(lvl) ==
    SubSeq(InPayload, Len(InPayload) - SpecSizeSum(lvl) - SpecSize(lvl) + 1,
                      Len(InPayload) - SpecSizeSum(lvl))
RECURSIVE SpecChain(_)
\* levels 0 .. n-1, level 0 first
SpecChain(n) == IF n = 0 THEN <<>> ELSE SpecChain(n - 1) \o SpecLevelChunk(n - 1)

(***************************************************************************)
(* C2: an input shorter than the fixed header, or whose magic does not     *)
(* match, fails with status -2 whatever its format byte is, and no output  *)
(* buffer is produced.                                                     *)
(***************************************************************************)
C2_InvalidInput ==
    (Returned /\ Opened /\ (~HeaderComplete \/ ~MagicOk))
        => /\ ret = -2
           /\ dds_state = "none"
           /\ out_data = Unset
           /\ out_size = Unset

\* a full header with a foreign magic and a format byte that is not recognized either
C2_Witness ==
    /\ Returned /\ ret = -2
    /\ HeaderComplete /\ ~MagicOk /\ InFormat = 255

(***************************************************************************)
(* C3: with a complete header and matching magic, a format code outside    *)
(* the four recognized ones fails with status -3, whatever width, height,  *)
(* has_mipmaps and payload are; a recognized code never yields -3.         *)
(***************************************************************************)
C3_UnsupportedFormat ==
    (Returned /\ Opened /\ HeaderComplete /\ MagicOk)
        => (ret = -3 <=> InFormat \notin Recognized)

C3_Witness ==
    /\ Returned /\ ret = -3
    /\ InFormat = TEX_FORMAT_ETC1 /\ InHasMipmaps /\ InWidth = 2 /\ Len(InPayload) > 0

(***************************************************************************)
(* C4: with has_mipmaps = 0 the payload part of the output has the length  *)
(* of the input payload and is byte for byte identical to it.              *)
(***************************************************************************)
C4_StraightCopy ==
    (Returned /\ ret = 0 /\ ValidInput /\ ~InHasMipmaps)
        => /\ Len(OutPayload) = Len(InPayload)
           /\ OutPayload = InPayload

C4_Witness ==
    /\ Returned /\ ret = 0 /\ ValidInput /\ ~InHasMipmaps
    /\ Len(InPayload) >= 3 /\ OutPayload = InPayload

(***************************************************************************)
(* C5: with has_mipmaps set and a payload exactly as long as the whole     *)
(* chain, the output payload is level 0, level 1, ... where level i is the *)
(* source chunk ending size_0 + ... + size_{i-1} bytes before the end; the *)
(* write position strictly increases and every source byte is copied       *)
(* exactly once.                                                           *)
(***************************************************************************)
C5_MipReorder ==
    (Returned /\ ret = 0 /\ ValidInput /\ InHasMipmaps
       /\ Len(InPayload) = SpecSizeSum(SpecLevels))
        => /\ OutPayload = SpecChain(SpecLevels)
           /\ Len(copies) = SpecLevels
           /\ \A a \in 1..Len(copies) :
                 /\ copies[a][3] = SpecSize(a - 1)
                 /\ copies[a][2] = Len(InPayload) - SpecSizeSum(a)
                 /\ a > 1 => copies[a][1] > copies[a - 1][1]
           /\ \A k \in 0..(Len(InPayload) - 1) :
                 Cardinality({a \in 1..Len(copies) :
                     copies[a][2] <= k /\ k < copies[a][2] + copies[a][3]}) = 1

\* a full chain of at least two levels has been copied
C5_Witness ==
    /\ Returned /\ ret = 0 /\ ValidInput /\ InHasMipmaps
    /\ Len(InPayload) = SpecSizeSum(SpecLevels)
    /\ SpecLevels >= 2 /\ Len(copies) >= 2

(***************************************************************************)
(* C6 as stated: DXT1, width = height = 8, has_mipmaps set, 16-byte        *)
(* payload with level 1 at bytes 0..7 and level 0 at bytes 8..15: the      *)
(* output payload holds bytes 8..15 first and bytes 0..7 second.           *)
(***************************************************************************)
C6_TwoLevels ==
    SubSeq(InPayload, 9, 16) \o SubSeq(InPayload, 1, 8)

C6_Original ==
    (Returned /\ ret = 0 /\ MagicOk /\ InFormat = TEX_FORMAT_DXT1 /\ InHasMipmaps
       /\ InWidth = 8 /\ InHeight = 8 /\ Len(InPayload) = 16)
        => OutPayload = C6_TwoLevels

(***************************************************************************)
(* C6 amended: the same with 2 <= max(width, height) <= 4, where level 0   *)
(* and level 1 are one 4x4 block of 8 bytes each (width = height = 2 is    *)
(* the two-level chain of exactly 16 bytes).                               *)
(***************************************************************************)
C6_Amended ==
    (Returned /\ ret = 0 /\ MagicOk /\ InFormat = TEX_FORMAT_DXT1 /\ InHasMipmaps
       /\ MAX(InWidth, InHeight) >= 2 /\ MAX(InWidth, InHeight) <= 4
       /\ Len(InPayload) = 16)
        => OutPayload = C6_TwoLevels

C6_Witness ==
    /\ Returned /\ ret = 0 /\ MagicOk /\ InFormat = TEX_FORMAT_DXT1 /\ InHasMipmaps
    /\ InWidth = 2 /\ InHeight = 2 /\ Len(InPayload) = 16
    /\ OutPayload = C6_TwoLevels


(***************************************************************************)
(* What the claims about the extractors speak of, read off the document.   *)
(***************************************************************************)
HasEntries == "entries" \in DOMAIN doc.sections /\ doc.sections["entries"].t = "Map"
EntryItems == doc.sections["entries"].items
Extracting == bpc \in {"scan", "done"}

FieldsAt(obj, hash) == {k \in 1..Len(obj.items) : obj.items[k].hash = hash}
HasKey(obj, hash) == FieldsAt(obj, hash) # {}
IsText(v) == v.t = "String" /\ v.s # ""
NonEmptyTexts(obj, hash) ==
    {obj.items[k].value.s : k \in {j \in FieldsAt(obj, hash) : IsText(obj.items[j].value)}}
Lowest(S) == CHOOSE k \in S : \A j \in S : k <= j
Highest(S) == CHOOSE k \in S : \A j \in S : j <= k

\* the field a build reads for a key that the object holds: bin_parser the
\* first one, lol_native the last one
FieldRead(obj, hash) ==
    obj.items[IF impl = "bin_parser" THEN Lowest(FieldsAt(obj, hash))
              ELSE Highest(FieldsAt(obj, hash))]

OverrideSteps == {k \in 1..Len(log) : log[k].kind = "override"}
\* step k recorded a path and no later step wrote under the same name
Stands(k) ==
    /\ log[k].recorded
    /\ \A j \in (k + 1)..Len(log) : ~(log[j].recorded /\ log[j].name = log[k].name)
\* the result holds exactly the names the steps recorded
ResultFromSteps ==
    /\ DOMAIN results = {log[k].name : k \in {j \in 1..Len(log) : log[j].recorded}}
    /\ \A k \in 1..Len(log) : Stands(k) => results[log[k].name] = log[k].path

\* the ids the specification calls resolvable: keys of HashId variant with an Object body
Resolvable ==
    {EntryItems[k].key.h :
        k \in {j \in 1..Len(EntryItems) :
                 EntryItems[j].key.t = "Hash" /\ EntryItems[j].value.t = "Embed"}}
\* the ids a MATERIAL_LINK field of the override names (HashId or Link, non-zero)
LinkIds(o) ==
    {o.items[k].value.h :
        k \in {j \in FieldsAt(o, HASH_MATERIAL_LINK) :
                 o.items[j].value.t \in {"Hash", "Link"} /\ o.items[j].value.h # 0}}

\* C1: when the document has no "entries" section, or "entries" is not a
\* Mapping, the extraction ends with an empty result and the empty text, and
\* no pair is ever scanned.
C1_NoEntries ==
    ~HasEntries
        => /\ results = EmptyMap
           /\ log = <<>>
           /\ bpc \in {"start", "done"}
           /\ bpc = "done" => out = <<>>

\* C1 witness: extraction is over for a document that keeps a skin entry
\* with textures in a section that is not "entries".
C1_Witness ==
    /\ bpc = "done" /\ ~HasEntries
    /\ "patches" \in DOMAIN doc.sections
    /\ doc.sections["patches"] = GoodEntries
    /\ out = <<>>

\* C7 as stated: for every override element that has a TEXTURE field holding
\* non-empty Text and a MATERIAL_LINK field, the path recorded under the
\* override's name is a direct TEXTURE text of the element.
C7_Original ==
    \A k \in OverrideSteps :
        LET o == log[k].elem IN
        (NonEmptyTexts(o, HASH_TEXTURE) # {} /\ HasKey(o, HASH_MATERIAL_LINK))
            => /\ log[k].path \in NonEmptyTexts(o, HASH_TEXTURE)
               /\ log[k].recorded <=> log[k].name # ""
               /\ Stands(k) => results[log[k].name] \in NonEmptyTexts(o, HASH_TEXTURE)

\* C7 amended: for every override element whose TEXTURE field as the build
\* reads it (the first such field in bin_parser, the last in lol_native) holds
\* non-empty Text and which has a MATERIAL_LINK field, the path recorded under
\* the override's name is that TEXTURE text, whatever the link resolves to.
C7_DirectWins ==
    \A k \in OverrideSteps :
        LET o == log[k].elem IN
        (/\ HasKey(o, HASH_TEXTURE)
         /\ IsText(FieldRead(o, HASH_TEXTURE).value)
         /\ HasKey(o, HASH_MATERIAL_LINK))
            => /\ log[k].path = FieldRead(o, HASH_TEXTURE).value.s
               /\ log[k].recorded <=> log[k].name # ""
               /\ Stands(k) => results[log[k].name] = FieldRead(o, HASH_TEXTURE).value.s

\* C7 witness: a named override with direct texture "d.dds" and a link that
\* resolves to a material whose Diffuse_Texture is another path; "d.dds" is
\* what the result holds.
C7_Witness ==
    /\ bpc = "done"
    /\ \E k \in OverrideSteps :
         /\ NonEmptyTexts(log[k].elem, HASH_TEXTURE) = {"d.dds"}
         /\ LinkIds(log[k].elem) \cap DOMAIN entries_map # {}
         /\ \E h \in LinkIds(log[k].elem) \cap DOMAIN entries_map : entries_map[h] = MaterialA
         /\ log[k].name = "body"
         /\ results["body"] = "d.dds"


\* the elements of a sequence value, whichever of the three encodings it has
SequenceValues(v) ==
    IF v.t \in {"List", "List2", "Map"}
    THEN [k \in 1..Len(v.items) |-> v.items[k].value]
    ELSE <<>>
\* an Object whose PROP_NAME is "Diffuse_Texture" and whose PROP_VALUE is
\* non-empty Text, each field taken as the build reads it
IsDiffuse(e) ==
    /\ e.t = "Embed"
    /\ HasKey(e, HASH_PROP_NAME)
    /\ FieldRead(e, HASH_PROP_NAME).value = String("Diffuse_Texture")
    /\ HasKey(e, HASH_PROP_VALUE)
    /\ IsText(FieldRead(e, HASH_PROP_VALUE).value)
DiffuseAt(vals) == {k \in 1..Len(vals) : IsDiffuse(vals[k])}
\* the object an id resolves to: the body of the last pair keyed by the id
Resolve(h) ==
    EntryItems[Highest({j \in 1..Len(EntryItems) :
                          /\ EntryItems[j].key.t = "Hash" /\ EntryItems[j].key.h = h
                          /\ EntryItems[j].value.t = "Embed"})].value
\* the SAMPLER_VALUES field of an object that has one: the first such field
SamplerField(m) == m.items[Lowest(FieldsAt(m, HASH_SAMPLER_VALUES))]
\* the override has a name, no non-empty direct texture and a link (HashId or
\* Link) resolving to an object whose SAMPLER_VALUES sequence has a matching element
FallbackCase(o) ==
    /\ HasKey(o, HASH_SUBMESH)
    /\ IsText(FieldRead(o, HASH_SUBMESH).value)
    /\ NonEmptyTexts(o, HASH_TEXTURE) = {}
    /\ HasKey(o, HASH_MATERIAL_LINK)
    /\ FieldRead(o, HASH_MATERIAL_LINK).value.t \in {"Hash", "Link"}
    /\ FieldRead(o, HASH_MATERIAL_LINK).value.h \in Resolvable
    /\ FieldRead(o, HASH_MATERIAL_LINK).value.h # 0
    /\ LET m == Resolve(FieldRead(o, HASH_MATERIAL_LINK).value.h)
       IN  /\ HasKey(m, HASH_SAMPLER_VALUES)
           /\ DiffuseAt(SequenceValues(SamplerField(m).value)) # {}
\* the PROP_VALUE of the first matching element
FirstDiffuse(o) ==
    LET vals == SequenceValues(
                    SamplerField(Resolve(FieldRead(o, HASH_MATERIAL_LINK).value.h)).value)
    IN  FieldRead(vals[Lowest(DiffuseAt(vals))], HASH_PROP_VALUE).value.s
\* the variants the build accepts for the link and for the sequence
LinkRead(o) ==
    \/ FieldRead(o, HASH_MATERIAL_LINK).value.t = "Link"
    \/ impl # "bin_parser"
SequenceRead(o) ==
    LET t == SamplerField(Resolve(FieldRead(o, HASH_MATERIAL_LINK).value.h)).value.t
    IN  t = "List" \/ (t = "List2" /\ impl = "bin_parser")

\* C8 as stated: when an override has a name, no non-empty direct texture and
\* a link that resolves to an object whose SAMPLER_VALUES sequence holds a
\* matching element, the path recorded under the override's name is the
\* PROP_VALUE of the first matching element of that sequence.
C8_FirstDiffuse ==
    \A k \in OverrideSteps :
        FallbackCase(log[k].elem)
            => /\ log[k].recorded
               /\ log[k].name = FieldRead(log[k].elem, HASH_SUBMESH).value.s
               /\ log[k].path = FirstDiffuse(log[k].elem)
               /\ Stands(k) => results[log[k].name] = FirstDiffuse(log[k].elem)

\* C8, the part the builds carry out: when moreover the link and the sequence
\* have a variant the build accepts, the first matching element is recorded.
C8_FirstDiffuseRead ==
    \A k \in OverrideSteps :
        (/\ FallbackCase(log[k].elem)
         /\ LinkRead(log[k].elem)
         /\ SequenceRead(log[k].elem))
            => /\ log[k].recorded
               /\ log[k].name = FieldRead(log[k].elem, HASH_SUBMESH).value.s
               /\ log[k].path = FirstDiffuse(log[k].elem)
               /\ Stands(k) => results[log[k].name] = FirstDiffuse(log[k].elem)

\* C8, the part the builds do not carry out: in the fallback case with a
\* variant the build does not accept, nothing is recorded.
C8_NotRead ==
    \A k \in OverrideSteps :
        (/\ FallbackCase(log[k].elem)
         /\ ~(LinkRead(log[k].elem) /\ SequenceRead(log[k].elem)))
            => ~log[k].recorded /\ log[k].path = ""

\* C8: a state where the fallback chose the first of two matching elements,
\* after an element that does not match
C8_ListWitness ==
    /\ bpc = "done"
    /\ \E k \in OverrideSteps :
         /\ FallbackCase(log[k].elem)
         /\ 1 \in DOMAIN entries_map
         /\ entries_map[1] = Material(List(<<Element(Prop("Diffuse_Texture", "")),
                                             Element(Prop("Diffuse_Texture", "b.dds"))>>))
         /\ log[k].name = "body"
         /\ results["body"] = "b.dds"

\* C8: a state where the fallback case occurred with the sequence held in a
\* Mapping, and the result is empty
C8_MappingWitness ==
    /\ bpc = "done"
    /\ results = EmptyMap
    /\ \E k \in OverrideSteps :
         /\ FallbackCase(log[k].elem)
         /\ FieldRead(log[k].elem, HASH_MATERIAL_LINK).value = Link(1)
         /\ SamplerField(Resolve(1)).value.t = "Map"

\* C9: an override none of whose TEXTURE fields holds non-empty Text and none
\* of whose MATERIAL_LINK fields names a resolvable non-zero id records no
\* entry; the index holds exactly the ids of pairs keyed by a HashId with an
\* Object body, each resolving to such a pair's body; and the result holds
\* nothing but what the steps recorded.
C9_Unresolved ==
    /\ \A k \in OverrideSteps :
          (/\ NonEmptyTexts(log[k].elem, HASH_TEXTURE) = {}
           /\ LinkIds(log[k].elem) \cap Resolvable = {})
              => ~log[k].recorded /\ log[k].path = ""
    /\ (HasEntries /\ Extracting) =>
          /\ DOMAIN entries_map = Resolvable
          /\ \A h \in DOMAIN entries_map : entries_map[h] = Resolve(h)
    /\ ResultFromSteps

\* C9 witness: a named override without direct texture links to id 1, and the
\* only entry with id 1 is keyed by a Link or a Text, or its body is no
\* Object; nothing is recorded for the override.
C9_Witness ==
    /\ bpc = "done"
    /\ results = EmptyMap
    /\ \E k \in OverrideSteps :
         /\ log[k].name = "body"
         /\ LinkIds(log[k].elem) = {1}
         /\ ~log[k].recorded
    /\ \E j \in 1..Len(EntryItems) :
         \/ EntryItems[j].key = Link(1) /\ EntryItems[j].value = MaterialA
         \/ EntryItems[j].key = Hash(1) /\ EntryItems[j].value.t = "List"

\* the pairs scanned so far whose body is an Object with a SKIN_MESH_PROPERTIES
\* Object that has a TEXTURE field holding non-empty Text
BaseTexts(pair) ==
    IF pair.value.t # "Embed" THEN {}
    ELSE UNION {NonEmptyTexts(pair.value.items[k].value, HASH_TEXTURE) :
                  k \in {j \in FieldsAt(pair.value, HASH_SKIN_MESH_PROPERTIES) :
                           pair.value.items[j].value.t = "Embed"}}
Qualifying == {k \in 1..idx : BaseTexts(EntryItems[k]) # {}}
\* no SKIN_MESH_PROPERTIES key is repeated in the body of the pair, and no
\* TEXTURE key in its SKIN_MESH_PROPERTIES object
PlainEntry(pair) ==
    pair.value.t = "Embed" =>
        /\ Cardinality(FieldsAt(pair.value, HASH_SKIN_MESH_PROPERTIES)) <= 1
        /\ \A k \in FieldsAt(pair.value, HASH_SKIN_MESH_PROPERTIES) :
              pair.value.items[k].value.t = "Embed" =>
                  Cardinality(FieldsAt(pair.value.items[k].value, HASH_TEXTURE)) <= 1
BaseOverrides == {k \in OverrideSteps : log[k].recorded /\ log[k].name = "BASE"}

\* C10 as stated: result["BASE"] is the TEXTURE text of the last qualifying
\* entry in Mapping order; with no such entry, "BASE" is in the result only
\* if an override is named "BASE".
C10_Original ==
    (HasEntries /\ Extracting) =>
        IF Qualifying # {}
        THEN /\ "BASE" \in DOMAIN results
             /\ results["BASE"] \in BaseTexts(EntryItems[Highest(Qualifying)])
        ELSE "BASE" \in DOMAIN results => BaseOverrides # {}

\* C10 amended: provided no scanned entry repeats the SKIN_MESH_PROPERTIES key
\* or, inside that object, the TEXTURE key, and no override named "BASE" has
\* recorded a path, result["BASE"] is the TEXTURE text of the last qualifying
\* entry scanned, and "BASE" is absent when there is none; in any case, with
\* no qualifying entry "BASE" is present only if an override named "BASE"
\* recorded it.
C10_Base ==
    (HasEntries /\ Extracting) =>
        /\ ((\A k \in 1..idx : PlainEntry(EntryItems[k])) /\ BaseOverrides = {}) =>
              IF Qualifying # {}
              THEN /\ "BASE" \in DOMAIN results
                   /\ BaseTexts(EntryItems[Highest(Qualifying)]) = {results["BASE"]}
              ELSE "BASE" \notin DOMAIN results
        /\ (Qualifying = {} /\ "BASE" \in DOMAIN results) => BaseOverrides # {}

\* C10 witness: two qualifying entries with different TEXTURE texts have been
\* scanned and "BASE" holds the text of the second.
C10_Witness ==
    /\ bpc = "done"
    /\ Cardinality(Qualifying) = 2
    /\ BaseTexts(EntryItems[1]) = {"base.dds"}
    /\ BaseTexts(EntryItems[2]) = {"base2.dds"}
    /\ results["BASE"] = "base2.dds"
    /\ out = <<(<<"BASE", "base2.dds">>)>>

(***************************************************************************)
(* Level sizes as exact integers, for headers over the whole 16-bit range. *)
(***************************************************************************)
\* size_lvl of section 4.2 as an exact integer hi * 2^16 + lo
ExactSize(lvl) ==
    Product(SpecBytesPerBlock * CeilDiv(MAX(Shr(InHeight, lvl), 1), SpecBlockEdge),
            CeilDiv(MAX(Shr(InWidth, lvl), 1), SpecBlockEdge))
\* size_lvl does not exceed room, a length below 2^16
Fits(lvl, room) == ExactSize(lvl).hi = 0 /\ ExactSize(lvl).lo <= room
RECURSIVE FitLevels(_, _)
\* how many of the levels lvl, lvl + 1, ... fit one after the other into room bytes
FitLevels(lvl, room) ==
    IF lvl < SpecLevels /\ Fits(lvl, room)
    THEN 1 + FitLevels(lvl + 1, room - ExactSize(lvl).lo)
    ELSE 0
\* the largest k such that size_0 + ... + size_{k-1} does not exceed the payload length
FitCount == FitLevels(0, Len(InPayload))
RECURSIVE FitCopies(_, _, _)
\* the copies of the levels that fit: <<write position, cursor, size>>, level lvl first
FitCopies(lvl, at, room) ==
    IF lvl < SpecLevels /\ Fits(lvl, room)
    THEN <<(<<at, room - ExactSize(lvl).lo, ExactSize(lvl).lo>>)>>
            \o FitCopies(lvl + 1, at + ExactSize(lvl).lo, room - ExactSize(lvl).lo)
    ELSE <<>>
Truncated == FitCount < SpecLevels
\* a failure of the environment: fopen, malloc or the fread of the payload
EnvFailure ==
    \/ ret = -1 /\ tex_file = "null"
    \/ ret = -4 /\ (dds_state = "none" \/ (dds_state = "freed" /\ tex_state = "none"))
    \/ ret = -2 /\ tex_state = "freed" /\ dds_state = "freed"
CopyDone == pc = "finish" \/ (Returned /\ ret = 0)

\* C11: for every input with a valid header, a recognized format and
\* has_mipmaps set whose payload is shorter than the sum of the level sizes,
\* the conversion does not fault, ends with status 0 unless fopen, malloc or
\* fread fails, and has copied exactly the levels 0..k-1 that fit.
C11_Truncated ==
    (ValidInput /\ InHasMipmaps /\ Truncated) =>
        /\ pc # "crashed"
        /\ Returned => (ret = 0 \/ EnvFailure)
        /\ CopyDone => copies = FitCopies(0, OutHeaderLen, Len(InPayload))

\* C11, the part the builds carry out: the same, for headers none of whose
\* levels up to the first one that does not fit has a size of 2^31 or more.
C11_TruncatedBelow2G ==
    (/\ ValidInput /\ InHasMipmaps /\ Truncated
     /\ \A lvl \in 0..FitCount : ExactSize(lvl).hi < 32768) =>
        /\ pc # "crashed"
        /\ Returned => (ret = 0 \/ EnvFailure)
        /\ CopyDone => copies = FitCopies(0, OutHeaderLen, Len(InPayload))

\* C11: a truncated chain of which two levels have been copied, with status 0
C11_CopiedWitness ==
    /\ Returned /\ ret = 0
    /\ ValidInput /\ InHasMipmaps /\ Truncated
    /\ FitCount = 2
    /\ Len(copies) = 2

\* C11: a 16-byte payload under a BGRA8 header of 49152 x 16384, whose level
\* 0 has 3 * 2^30 bytes: the cursor wraps to a positive value and the copy
\* is attempted
C11_FaultWitness ==
    /\ pc = "crashed"
    /\ ValidInput /\ InHasMipmaps /\ Truncated
    /\ InFormat = TEX_FORMAT_BGRA8 /\ InWidth = 3 * 2^14 /\ InHeight = 2^14
    /\ Len(InPayload) = 16
    /\ current_offset = 2^30 + 16

\* the indices below the reported length that no memcpy of the converter has set
Unwritten == {k \in 0..(out_size - 1) : k \notin written}

\* C12: in the buffer handed back by a successful conversion every byte below
\* the reported length has been written by the converter, as a header byte
\* or as a byte copied from the payload.
C12_WellFormed ==
    (Returned /\ ret = 0) =>
        /\ out_size = Len(out_data)
        /\ Unwritten = {}

\* C12, the part the builds carry out: the same when has_mipmaps is unset,
\* when the level count is 0, or when the levels that fit fill the payload
\* exactly.
C12_WellFormedFilled ==
    (/\ Returned /\ ret = 0
     /\ \/ ~InHasMipmaps
        \/ SpecLevels = 0
        \/ SpecSizeSum(FitCount) = Len(InPayload)) =>
        /\ out_size = Len(out_data)
        /\ Unwritten = {}

\* C12, what the builds hand back otherwise: the bytes after the levels that
\* were copied are those malloc returned.
C12_Leftover ==
    (/\ Returned /\ ret = 0
     /\ InHasMipmaps /\ SpecLevels > 0
     /\ SpecSizeSum(FitCount) # Len(InPayload)) =>
        /\ Unwritten = (OutHeaderLen + SpecSizeSum(FitCount))..(out_size - 1)
        /\ \E g \in Fills : \A k \in Unwritten : out_data[k + 1] = g

\* C12: a truncated chain (DXT1, 8x8, 16-byte payload): no level fits and the
\* 16 bytes after the headers are what malloc returned
C12_TruncatedWitness ==
    /\ Returned /\ ret = 0
    /\ InFormat = TEX_FORMAT_DXT1 /\ InWidth = 8 /\ InHeight = 8 /\ InHasMipmaps
    /\ Len(InPayload) = 16
    /\ Unwritten = 128..143
    /\ \A k \in Unwritten : out_data[k + 1] = 205

\* C12: a payload longer than the chain (DXT1, 2x2, 24-byte payload): two
\* levels of 8 bytes are copied and 8 bytes are left as malloc returned them
C12_LongerWitness ==
    /\ Returned /\ ret = 0
    /\ InFormat = TEX_FORMAT_DXT1 /\ InWidth = 2 /\ InHeight = 2 /\ InHasMipmaps
    /\ Len(InPayload) = 24
    /\ Unwritten = 144..151
    /\ \A k \in Unwritten : out_data[k + 1] = 205

(***************************************************************************)
(* Layout of a successful output.                                          *)
(***************************************************************************)
\* the little-endian 32-bit word of the output at byte offset off
OutU32At(off) ==
    out_data[off + 1] + 256 * out_data[off + 2]
    + 65536 * out_data[off + 3] + 16777216 * out_data[off + 4]
OutBytes(off, n) == SubSeq(out_data, off + 1, off + n)
\* offsets in the output: the primary header starts after the magic; dwHeight,
\* dwWidth, dwMipMapCount, ddspf.dwFourCC and dwCaps inside it
OutDwSize == OutU32At(4)
OutDwFlags == OutU32At(4 + 4)
OutDwHeight == OutU32At(4 + 8)
OutDwWidth == OutU32At(4 + 12)
OutDwMipMapCount == OutU32At(4 + 24)
OutFourCC == OutBytes(4 + 72 + 8, 4)
OutDwCaps == OutU32At(4 + 104)
ExtendedBlock == <<13, 0, 0, 0, 3, 0, 0, 0, 0, 0, 0, 0, 1, 0, 0, 0, 1, 0, 0, 0>>
HasExtendedBlock ==
    /\ OutFourCC = <<68, 88, 49, 48>>
    /\ Len(out_data) >= 4 + 124 + 20
    /\ OutBytes(4 + 124, 20) = ExtendedBlock

\* C13: every successful output is the magic "DDS ", the 124-byte primary
\* header, the 20-byte extended-format block exactly when the format code is
\* RGBA16-signed, then as many payload bytes as the input payload has; the
\* reported length is 4 + 124 + (20 if RGBA16-signed else 0) + payload length,
\* and the header's height and width are the input header's.
C13_Layout ==
    (Returned /\ ret = 0) =>
        /\ out_size = 4 + 124 + (IF InFormat = TEX_FORMAT_RGBA16 THEN 20 ELSE 0)
                      + Len(InPayload)
        /\ Len(out_data) = out_size
        /\ OutBytes(0, 4) = <<68, 68, 83, 32>>
        /\ OutDwSize = 124
        /\ OutDwHeight = InHeight
        /\ OutDwWidth = InWidth
        /\ (InFormat = TEX_FORMAT_RGBA16) <=> HasExtendedBlock
        /\ Len(OutPayload) = Len(InPayload)

\* a successful RGBA16-signed conversion of a non-square image with a payload
C13_Witness ==
    /\ Returned /\ ret = 0
    /\ InFormat = TEX_FORMAT_RGBA16
    /\ InWidth = 2 ^ 16 - 1 /\ InHeight = 256
    /\ Len(InPayload) = 16
    /\ out_size = 164
    /\ HasExtendedBlock

\* a successful conversion without the extended block
C13_PlainWitness ==
    /\ Returned /\ ret = 0
    /\ InFormat = TEX_FORMAT_DXT5
    /\ InWidth = 7 /\ InHeight = 3
    /\ out_size = 128 + Len(InPayload)
    /\ ~HasExtendedBlock

(***************************************************************************)
(* Level count and mipmap bits of the header.                              *)
(***************************************************************************)
Bit(x, n) == (x \div (2 ^ n)) % 2
\* DDS_HEADER_FLAGS_MIPMAP is bit 17 of dwFlags; DDS_SURFACE_FLAGS_MIPMAP is
\* bits 3 and 22 of dwCaps
MipmapBitsSet ==
    Bit(OutDwFlags, 17) = 1 /\ Bit(OutDwCaps, 3) = 1 /\ Bit(OutDwCaps, 22) = 1
MipmapBitsClear ==
    Bit(OutDwFlags, 17) = 0 /\ Bit(OutDwCaps, 3) = 0 /\ Bit(OutDwCaps, 22) = 0
\* floor(log2(max)) + 1 read at max = 0 with floor(log2(0)) taken as 0, the
\* least value the expression has on the positive integers
FormulaLevels == FloorLog2(MAX(InWidth, InHeight)) + 1
LevelsAre(n) ==
    IF InHasMipmaps
    THEN mipmap_count = n /\ OutDwMipMapCount = n /\ MipmapBitsSet
    ELSE mipmap_count = 0 /\ OutDwMipMapCount = 0 /\ MipmapBitsClear

\* C14 as stated: with has_mipmaps set the level count of the loop and of the
\* header is floor(log2(max(width, height))) + 1 for every width and height
\* in the 16-bit range, and the mipmap bits are set; with has_mipmaps unset
\* count and field are 0 and the bits are clear.
C14_Original == (Returned /\ ret = 0) => LevelsAre(FormulaLevels)

\* C14: with has_mipmaps set the level count of the loop and of the header is
\* floor(log2(max(width, height))) + 1 whenever max(width, height) >= 1 and is
\* 0 when width and height are both 0, and the mipmap bits are set in both
\* cases; with has_mipmaps unset count and field are 0 and the bits are clear.
C14_LevelCount == (Returned /\ ret = 0) => LevelsAre(SpecLevels)

\* a full chain of 16 levels for a 65535 x 49152 image
C14_Witness ==
    /\ Returned /\ ret = 0 /\ InHasMipmaps
    /\ InWidth = 2 ^ 16 - 1 /\ InHeight = 3 * 2 ^ 14
    /\ mipmap_count = 16 /\ OutDwMipMapCount = 16 /\ MipmapBitsSet

\* a 0 x 0 image with has_mipmaps set: no level, the bits set all the same
C14_ZeroWitness ==
    /\ Returned /\ ret = 0 /\ InHasMipmaps
    /\ InWidth = 0 /\ InHeight = 0
    /\ mipmap_count = 0 /\ OutDwMipMapCount = 0 /\ MipmapBitsSet

\* has_mipmaps unset
C14_UnsetWitness ==
    /\ Returned /\ ret = 0 /\ ~InHasMipmaps
    /\ InWidth = 256 /\ InHeight = 255
    /\ mipmap_count = 0 /\ MipmapBitsClear

(***************************************************************************)
(* The header the converter reads and the payload that follows it.         *)
(***************************************************************************)
\* the first three bytes are the magic and the format byte of the packed
\* header, at offset 9, is one of the four recognized codes
MagicAndFormat ==
    /\ Len(file) >= 10
    /\ SubSeq(file, 1, 3) = <<84, 69, 88>>
    /\ file[10] \in Recognized
\* the call got as far as reading the payload, or failed for a reason that is
\* not in the input
Accepted == ret = 0 \/ EnvFailure
\* the payload the converter read is the bytes of the input from offset off
PayloadFrom(off) ==
    /\ tex_data_size = Len(file) - off
    /\ tex_data = SubSeq(file, off + 1, Len(file))

\* C15 as stated: the header has 8 bytes; every input of at least 8 bytes
\* with matching magic and a recognized format code is accepted, and its
\* payload is the bytes from offset 8 to the end.
C15_Original ==
    (Returned /\ Opened /\ Len(file) >= 8 /\ MagicAndFormat) =>
        /\ Accepted
        /\ ret = 0 => PayloadFrom(8)

\* C15: the header has 12 bytes; every input of at least 12 bytes with
\* matching magic and a recognized format code is accepted and its payload is
\* the bytes from offset 12 to the end; an input of fewer than 12 bytes is
\* rejected with status -2 whatever its magic and format code are.
C15_Header ==
    (Returned /\ Opened) =>
        /\ (Len(file) >= 12 /\ MagicAndFormat) => Accepted
        /\ ret = 0 => (Len(file) >= 12 /\ PayloadFrom(12))
        /\ Len(file) < 12 => ret = -2

\* an accepted input whose payload is the bytes from offset 12
C15_Witness ==
    /\ Returned /\ ret = 0
    /\ Len(file) = 12 + 9
    /\ tex_data = <<0, 1, 2, 3, 4, 5, 6, 7, 8>>

\* an 11-byte input with magic and a recognized format code, rejected
C15_ShortWitness ==
    /\ Returned /\ ret = -2
    /\ Len(file) = 11 /\ MagicAndFormat
    /\ tex_state = "none"

(***************************************************************************)
(* The result of a document, as a function of the document, and the same   *)
(* document with one of its fields held in another encoding.               *)
(***************************************************************************)
RECURSIVE RunEntries(_, _, _, _, _)
RunEntries(im, st, items, k, map) ==
    IF k > Len(items) THEN st
    ELSE RunEntries(im, ProcessEntry(im, st, k, items[k], map), items, k + 1, map)

\* what the build im leaves in its result mapping for the document d
ExtractResults(im, d) ==
    IF FindEntries(d) = <<>> THEN EmptyMap
    ELSE LET items == FindEntries(d)[1].items
         IN  RunEntries(im, [results |-> EmptyMap, log |-> <<>>], items, 1,
                        BuildIndex(items, 1, EmptyMap)).results

Finished == bpc = "done" /\ HasEntries

\* the items of a sequence value as list elements, and as the pairs of a mapping
AsElements(items) == [k \in 1..Len(items) |-> Element(items[k].value)]
AsPairs(items) == [k \in 1..Len(items) |-> Pair(String("k"), items[k].value)]
Recoded(val, t) ==
    IF t = "Map" THEN Map(AsPairs(val.items))
    ELSE [t |-> t, s |-> "", h |-> 0, items |-> AsElements(val.items)]

\* the fields with every field keyed hash whose value has a type of from
\* re-encoded with type t
RecodeFields(fields, hash, from, t) ==
    [k \in 1..Len(fields) |->
        IF fields[k].hash = hash /\ fields[k].value.t \in from
        THEN Field(hash, Recoded(fields[k].value, t))
        ELSE fields[k]]

\* the document with f applied to the fields of every object entry
OnEntries(d, f(_)) ==
    IF FindEntries(d) = <<>> THEN d
    ELSE LET items == FindEntries(d)[1].items
         IN  Bin("entries" :> Map([k \in 1..Len(items) |->
                IF items[k].value.t = "Embed"
                THEN Pair(items[k].key, Embed(f(items[k].value.items)))
                ELSE items[k]]))

\* the document with every MATERIAL_OVERRIDE list of a SKIN_MESH_PROPERTIES
\* object held as t
OverridesAs(d, t) ==
    LET Inner(fields) == RecodeFields(fields, HASH_MATERIAL_OVERRIDE, {"List", "List2"}, t)
        Outer(fields) ==
            [k \in 1..Len(fields) |->
                IF fields[k].hash = HASH_SKIN_MESH_PROPERTIES /\ fields[k].value.t = "Embed"
                THEN Field(fields[k].hash, Embed(Inner(fields[k].value.items)))
                ELSE fields[k]]
    IN  OnEntries(d, Outer)

HasOverrideList(d, t) ==
    /\ FindEntries(d) # <<>>
    /\ \E k \in 1..Len(FindEntries(d)[1].items) :
         LET v == FindEntries(d)[1].items[k].value IN
         /\ v.t = "Embed"
         /\ \E a \in 1..Len(v.items) :
              /\ v.items[a].hash = HASH_SKIN_MESH_PROPERTIES
              /\ v.items[a].value.t = "Embed"
              /\ \E b \in 1..Len(v.items[a].value.items) :
                   /\ v.items[a].value.items[b].hash = HASH_MATERIAL_OVERRIDE
                   /\ v.items[a].value.items[b].value.t = t
                   /\ v.items[a].value.items[b].value.items # <<>>

\* the result the run has reached is the result of its document
ResultIsFunction == Finished => results = ExtractResults(impl, doc)

\* C16: for every document, the result is the same whether its
\* MATERIAL_OVERRIDE lists are held as ListA or as ListB with the same
\* elements in the same order.
C16_EitherList ==
    Finished =>
        /\ results = ExtractResults(impl, OverridesAs(doc, "List"))
        /\ results = ExtractResults(impl, OverridesAs(doc, "List2"))

\* C16, what the builds do: a document's result is the result of its ListA
\* form whenever none of its override lists is a ListB, and a ListB of
\* overrides contributes nothing
C16_ListAOnly ==
    Finished =>
        /\ ~HasOverrideList(doc, "List2")
              => results = ExtractResults(impl, OverridesAs(doc, "List"))
        /\ (HasOverrideList(doc, "List2") /\ ~HasOverrideList(doc, "List"))
              => \A n \in DOMAIN results : n = "BASE"

\* two overrides in a ListB: nothing is recorded, their ListA form records both
C16_ListBWitness ==
    /\ Finished
    /\ HasOverrideList(doc, "List2")
    /\ results = EmptyMap
    /\ DOMAIN ExtractResults(impl, OverridesAs(doc, "List")) = {"body", "head"}

\* the document with every SAMPLER_VALUES sequence of an object entry held as t
SamplersAs(d, t) ==
    LET Recode(fields) ==
            RecodeFields(fields, HASH_SAMPLER_VALUES, {"List", "List2", "Map"}, t)
    IN  OnEntries(d, Recode)

SamplerEncodings == {"List", "List2", "Map"}
\* the encodings of SAMPLER_VALUES a build scans
ScannedEncodings(im) == IF im = "bin_parser" THEN {"List", "List2"} ELSE {"List"}

\* the paths the property objects of the material entries hold
MaterialPaths == {"a.dds", "b.dds", "c.dds"}

\* C17: for every document, link resolution adopts the same path, and so the
\* result is the same, whether the SAMPLER_VALUES of its objects are held as
\* a ListA, a ListB or a Mapping of the same property objects in the same order.
C17_AllEncodings ==
    Finished =>
        \A t \in SamplerEncodings : results = ExtractResults(impl, SamplersAs(doc, t))

\* C17, what the builds do: the encodings a build scans give the same result
\* as ListA, and in any other encoding no path is adopted from the link
C17_Scanned ==
    Finished =>
        /\ \A t \in ScannedEncodings(impl) :
              ExtractResults(impl, SamplersAs(doc, t))
                  = ExtractResults(impl, SamplersAs(doc, "List"))
        /\ \A t \in SamplerEncodings \ ScannedEncodings(impl) :
              SamplersAs(doc, t) = doc =>
                  \A k \in 1..Len(log) :
                      (log[k].kind = "override" /\ log[k].recorded)
                          => log[k].path \notin MaterialPaths

\* a linked material whose SAMPLER_VALUES is a Mapping: nothing is recorded,
\* while its ListA form resolves "body" to "a.dds"
C17_MappingWitness ==
    /\ Finished /\ impl = "bin_parser"
    /\ results = EmptyMap
    /\ SamplersAs(doc, "Map") = doc
    /\ ExtractResults(impl, SamplersAs(doc, "List")) = ("body" :> "a.dds")

\* the same for a ListB in the build that scans ListA only
C17_ListBWitness ==
    /\ Finished /\ impl = "lol_native"
    /\ results = EmptyMap
    /\ SamplersAs(doc, "List2") = doc
    /\ ExtractResults(impl, SamplersAs(doc, "List")) = ("body" :> "a.dds")

\* the document with g applied to the fields of every override element of a
\* MATERIAL_OVERRIDE ListA
OnOverrides(d, g(_)) ==
    LET Elem(el) ==
            IF el.value.t = "Embed" THEN Element(Embed(g(el.value.items))) ELSE el
        Inner(fields) ==
            [k \in 1..Len(fields) |->
                IF fields[k].hash = HASH_MATERIAL_OVERRIDE /\ fields[k].value.t = "List"
                THEN Field(fields[k].hash,
                           List([j \in 1..Len(fields[k].value.items) |->
                                    Elem(fields[k].value.items[j])]))
                ELSE fields[k]]
        Outer(fields) ==
            [k \in 1..Len(fields) |->
                IF fields[k].hash = HASH_SKIN_MESH_PROPERTIES /\ fields[k].value.t = "Embed"
                THEN Field(fields[k].hash, Embed(Inner(fields[k].value.items)))
                ELSE fields[k]]
    IN  OnEntries(d, Outer)

\* the document with every HashId or Link held by a MATERIAL_LINK field of an
\* override as a value of type t with the same 32-bit value
LinksAs(d, t) ==
    LET Recode(fields) ==
            [k \in 1..Len(fields) |->
                IF fields[k].hash = HASH_MATERIAL_LINK
                   /\ fields[k].value.t \in {"Hash", "Link"}
                THEN Field(fields[k].hash, [fields[k].value EXCEPT !.t = t])
                ELSE fields[k]]
    IN  OnOverrides(d, Recode)

\* the document with every MATERIAL_LINK field of a type in types given the id 0
LinksCleared(d, types) ==
    LET Clear(fields) ==
            [k \in 1..Len(fields) |->
                IF fields[k].hash = HASH_MATERIAL_LINK /\ fields[k].value.t \in types
                THEN Field(fields[k].hash, Link(0))
                ELSE fields[k]]
    IN  OnOverrides(d, Clear)

OtherVariants == {"String", "Embed", "List", "List2", "Map"}

\* C18: for every document, an override's MATERIAL_LINK yields the same id,
\* and the document the same result, whether the field holds a HashId or a
\* Link of the same 32-bit value; a value of any other variant yields id 0.
C18_HashOrLink ==
    Finished =>
        /\ results = ExtractResults(impl, LinksAs(doc, "Hash"))
        /\ results = ExtractResults(impl, LinksAs(doc, "Link"))
        /\ results = ExtractResults(impl, LinksCleared(doc, OtherVariants))

\* C18, what the builds do: lol_native.cpp and ritobin_dll.cpp read both
\* variants alike, bin_parser.cpp reads a HashId as id 0, and every build reads
\* any other variant as id 0
C18_AsRead ==
    Finished =>
        /\ impl # "bin_parser" =>
              /\ results = ExtractResults(impl, LinksAs(doc, "Hash"))
              /\ results = ExtractResults(impl, LinksAs(doc, "Link"))
        /\ impl = "bin_parser" =>
              results = ExtractResults(impl, LinksCleared(doc, {"Hash"}))
        /\ results = ExtractResults(impl, LinksCleared(doc, OtherVariants))

\* an override without a direct texture and with a HashId link to a material:
\* bin_parser.cpp records nothing, the Link form resolves "body" to "a.dds"
C18_HashWitness ==
    /\ Finished /\ impl = "bin_parser"
    /\ results = EmptyMap
    /\ LinksAs(doc, "Hash") = doc
    /\ ExtractResults(impl, LinksAs(doc, "Link")) = ("body" :> "a.dds")

\* the same document in lol_native.cpp
C18_HashReadWitness ==
    /\ Finished /\ impl = "lol_native"
    /\ results = ("body" :> "a.dds")
    /\ LinksAs(doc, "Hash") = doc /\ LinksAs(doc, "Link") # doc

(***************************************************************************)
(* The level size of the copy loop against the exact product.              *)
(***************************************************************************)
InLoop == pc = "loop" /\ ValidInput
\* the exact size of level lvl is below 2^32
Below2p32(lvl) == ExactSize(lvl).hi < 65536

\* C19: for every recognized format, every width and height in the 16-bit
\* range and every level below the level count, the byte length the copy
\* loop uses for the level is the exact integer bytes_per_block *
\* ceil(max(height >> i, 1) / block_edge) * ceil(max(width >> i, 1) / block_edge):
\* the 32-bit product does not wrap.
C19_ExactProduct ==
    InLoop => \A lvl \in 0..(mipmap_count - 1) : MipSize(tex_header, lvl) = ExactSize(lvl)

\* C19, what the builds compute: the exact product reduced modulo 2^32, which
\* is the exact product for every level whose size is below 2^32
C19_Modulo ==
    InLoop =>
        \A lvl \in 0..(mipmap_count - 1) :
            /\ MipSize(tex_header, lvl).lo = ExactSize(lvl).lo
            /\ MipSize(tex_header, lvl).hi = ExactSize(lvl).hi % 65536
            /\ Below2p32(lvl) => MipSize(tex_header, lvl) = ExactSize(lvl)

\* BGRA8, 32768 x 32768: level 0 has 2^32 bytes and the loop uses 0
C19_WrapWitness ==
    /\ InLoop /\ i = 0
    /\ InFormat = TEX_FORMAT_BGRA8 /\ InWidth = 2 ^ 15 /\ InHeight = 2 ^ 15
    /\ ExactSize(0) = [hi |-> 65536, lo |-> 0]
    /\ MipSize(tex_header, 0) = [hi |-> 0, lo |-> 0]

\* RGBA16, 65535 x 65535: level 0 has 8 * 65535^2 bytes and the loop uses
\* 65520 * 2^16 + 8
C19_WideWitness ==
    /\ InLoop /\ i = 0
    /\ InFormat = TEX_FORMAT_RGBA16 /\ InWidth = 2 ^ 16 - 1 /\ InHeight = 2 ^ 16 - 1
    /\ ExactSize(0).hi >= 65536
    /\ MipSize(tex_header, 0) = [hi |-> 65520, lo |-> 8]

(***************************************************************************)
(* The result mapping at every step of the extraction.                     *)
(***************************************************************************)
\* the override of step k carries a non-empty name and a non-empty path
Carries(k) == log[k].name # "" /\ log[k].path # ""
\* no override after step k carries the name of step k and a path
LastOverride(k) ==
    \A j \in OverrideSteps : (j > k /\ Carries(j)) => log[j].name # log[k].name
\* no step after step k, override or base texture, writes under the name of step k
LastWrite(k) ==
    \A j \in (k + 1)..Len(log) :
        (log[j].kind = "base" \/ Carries(j)) => log[j].name # log[k].name
\* every entry has a non-empty key and a non-empty value, an override makes
\* an entry exactly when it carries both, and the names of the entries are
\* those of the writes so far
EntriesWellFormed ==
    /\ \A n \in DOMAIN results : n # "" /\ results[n] # ""
    /\ \A k \in OverrideSteps : log[k].recorded <=> Carries(k)
    /\ \A k \in OverrideSteps : Carries(k) => log[k].name \in DOMAIN results
    /\ \A n \in DOMAIN results :
          \E k \in 1..Len(log) : log[k].name = n /\ (log[k].kind = "base" \/ Carries(k))

\* C20 as stated: at every step every entry recorded for an override has a
\* non-empty name and a non-empty path, an override lacking either records
\* nothing, and the value kept under a name is the path of the last override
\* in processing order that recorded an entry under it.
C20_Original ==
    /\ EntriesWellFormed
    /\ \A k \in OverrideSteps :
          (Carries(k) /\ LastOverride(k)) => results[log[k].name] = log[k].path

\* C20: at every step every entry recorded for an override has a non-empty
\* name and a non-empty path, an override lacking either records nothing, and
\* the value kept under a name is the path of the last override in processing
\* order that recorded an entry under it, unless the name is "BASE" and a
\* base texture was recorded after that override.
C20_LastWins ==
    /\ EntriesWellFormed
    /\ \A k \in OverrideSteps :
          (Carries(k) /\ LastWrite(k)) => results[log[k].name] = log[k].path
    /\ \A k \in OverrideSteps :
          (Carries(k) /\ LastOverride(k) /\ ~LastWrite(k)) => log[k].name = "BASE"

\* two overrides named "body" with different paths, then the second path kept
C20_Witness ==
    /\ bpc = "done"
    /\ \E j, k \in OverrideSteps :
          /\ j < k
          /\ log[j].name = "body" /\ log[j].path = "d.dds"
          /\ log[k].name = "body" /\ log[k].path = "e.dds"
    /\ results = ("body" :> "e.dds")

\* an override without a name and one without a path: nothing recorded
C20_NothingWitness ==
    /\ bpc = "done"
    /\ \E j, k \in OverrideSteps :
          /\ log[j].name = "" /\ log[j].path = "d.dds"
          /\ log[k].name = "head" /\ log[k].path = ""
    /\ results = EmptyMap

\* two overrides named "BASE", then the base texture of the same entry
C20_BaseWitness ==
    /\ bpc = "done"
    /\ Cardinality({k \in OverrideSteps : log[k].name = "BASE" /\ log[k].path = "e.dds"}) = 2
    /\ log[Len(log)].kind = "base"
    /\ results = ("BASE" :> "base.dds")

(***************************************************************************)
(* Memory safety of the copy loop.                                         *)
(***************************************************************************)
\* the k-th memcpy of the loop, <<destination, source offset, length>>, read
\* its bytes from inside the payload buffer
CopyInsidePayload(k) ==
    /\ copies[k][3] >= 0
    /\ copies[k][2] >= 0
    /\ copies[k][2] + copies[k][3] <= Len(InPayload)
\* the bytes the loop has written after the headers
BytesAfterHeaders == ptr - OutHeaderLen
LoopRan == ValidInput /\ InHasMipmaps /\ (pc \in {"loop", "finish", "crashed"} \/ Returned)
\* the size the loop computes for each of its levels is below 2^31
SizesBelow2p31 == \A lvl \in 0..(mipmap_count - 1) : MipSize(tex_header, lvl).hi < 32768

\* C21: for every header and every payload length, each copy the loop
\* executes reads a range inside the payload buffer, and the bytes written
\* after the headers never exceed the payload length: no copy reads or writes
\* out of bounds.
C21_MemorySafe ==
    LoopRan =>
        /\ pc # "crashed"
        /\ \A k \in 1..Len(copies) : CopyInsidePayload(k)
        /\ copies # <<>> => BytesAfterHeaders <= Len(InPayload)

\* C21, what the builds guarantee: the same for the headers whose computed
\* level sizes are all below 2^31, where the subtraction from the int32
\* cursor cannot wrap
C21_SafeBelow2p31 ==
    (LoopRan /\ SizesBelow2p31) =>
        /\ pc # "crashed"
        /\ \A k \in 1..Len(copies) : CopyInsidePayload(k)
        /\ copies # <<>> => BytesAfterHeaders <= Len(InPayload)

\* BGRA8, 49152 x 16384, 16-byte payload: the loop computes 0xC0000000 for
\* level 0, the cursor becomes 0x40000010 and the copy is executed; the call
\* goes on to return 0
C21_OutOfBoundsWitness ==
    /\ Returned /\ ret = 0
    /\ InFormat = TEX_FORMAT_BGRA8 /\ InWidth = 3 * 2 ^ 14 /\ InHeight = 2 ^ 14
    /\ Len(InPayload) = 16
    /\ copies = <<<<128, 2 ^ 30 + 16, -1>>>>

\* a chain that is copied in full, every copy inside the payload
C21_SafeWitness ==
    /\ Returned /\ ret = 0 /\ ValidInput /\ InHasMipmaps
    /\ SizesBelow2p31
    /\ Len(copies) >= 2
    /\ \A k \in 1..Len(copies) : CopyInsidePayload(k)
    /\ BytesAfterHeaders = Len(InPayload)

(***************************************************************************)
(* Ownership of the file, the scratch buffer and the output buffer at      *)
(* return.                                                                 *)
(***************************************************************************)
FileReleased == IF ret = -1 THEN tex_file = "null" ELSE tex_file = "closed"
ScratchReleased == tex_state \in {"none", "freed"}
HandedOver ==
    /\ dds_state = "live"
    /\ out_data = dds_data
    /\ out_size = total_size
NothingHandedOver ==
    /\ dds_state \in {"none", "freed"}
    /\ out_data = Unset
    /\ out_size = Unset
Statuses == {0, -1, -2, -3, -4}

\* C22: on every return path the input file is closed if it was opened and
\* the scratch payload buffer is freed if it was allocated; the output buffer
\* is live and handed over through *out_data and *out_size exactly when the
\* status is 0, and on every other status it has been freed or was never
\* allocated and *out_data and *out_size are as the caller left them.
C22_Ownership ==
    Returned =>
        /\ ret \in Statuses
        /\ FileReleased
        /\ ScratchReleased
        /\ IF ret = 0 THEN HandedOver ELSE NothingHandedOver
        /\ dds_state = "live" <=> ret = 0

\* success: file closed, scratch buffer freed, output buffer handed over
C22_Witness ==
    /\ Returned /\ ret = 0
    /\ tex_file = "closed" /\ tex_state = "freed"
    /\ HandedOver /\ Len(out_data) = out_size /\ out_size > 128

\* the scratch allocation fails: the output buffer is freed again
C22_SecondAllocWitness ==
    /\ Returned /\ ret = -4
    /\ tex_file = "closed" /\ tex_state = "none" /\ dds_state = "freed"
    /\ NothingHandedOver

\* a short read of the payload: both buffers freed
C22_ShortReadWitness ==
    /\ Returned /\ ret = -2
    /\ tex_file = "closed" /\ tex_state = "freed" /\ dds_state = "freed"
    /\ NothingHandedOver

\* the other failures: open, header, format, first allocation
C22_OpenWitness == Returned /\ ret = -1 /\ tex_file = "null" /\ dds_state = "none"
C22_HeaderWitness ==
    Returned /\ ret = -2 /\ tex_file = "closed" /\ dds_state = "none" /\ tex_state = "none"
C22_FormatWitness == Returned /\ ret = -3 /\ tex_file = "closed" /\ dds_state = "none"
C22_FirstAllocWitness ==
    Returned /\ ret = -4 /\ tex_file = "closed" /\ dds_state = "none" /\ tex_state = "none"

(***************************************************************************)
(* The three extractors against each other.                                *)
(***************************************************************************)
RECURSIVE CommonValue(_)
\* no Object inside v has two fields with the same key hash, no
\* SAMPLER_VALUES field holds a ListB and no MATERIAL_LINK field a HashId
CommonValue(v) ==
    IF v.t = "Embed"
    THEN /\ \A a, b \in 1..Len(v.items) : a # b => v.items[a].hash # v.items[b].hash
         /\ \A k \in 1..Len(v.items) :
               /\ v.items[k].hash = HASH_SAMPLER_VALUES => v.items[k].value.t # "List2"
               /\ v.items[k].hash = HASH_MATERIAL_LINK => v.items[k].value.t # "Hash"
               /\ CommonValue(v.items[k].value)
    ELSE IF v.t \in {"List", "List2", "Map"}
    THEN \A k \in 1..Len(v.items) : CommonValue(v.items[k].value)
    ELSE TRUE
CommonDoc(d) == \A sec \in DOMAIN d.sections : CommonValue(d.sections[sec])

SameInAll(d) ==
    /\ ExtractResults("bin_parser", d) = ExtractResults("lol_native", d)
    /\ ExtractResults("lol_native", d) = ExtractResults("ritobin_dll", d)

\* C23 as stated: for every document in which no Object has two fields with
\* the same key hash, no SAMPLER_VALUES value is a ListB and no MATERIAL_LINK
\* value is a HashId, the three extractors return the same mapping; and
\* lol_native.cpp and ritobin_dll.cpp return the same mapping for every document.
C23_Original ==
    Finished =>
        /\ results = ExtractResults(impl, doc)
        /\ CommonDoc(doc) => SameInAll(doc)
        /\ ExtractResults("lol_native", doc) = ExtractResults("ritobin_dll", doc)

RECURSIVE NamesBase(_)
\* some Object inside v has a SUBMESH_NAME field holding the text "BASE"
NamesBase(v) ==
    IF v.t = "Embed"
    THEN \E k \in 1..Len(v.items) :
            \/ v.items[k].hash = HASH_SUBMESH /\ v.items[k].value = String("BASE")
            \/ NamesBase(v.items[k].value)
    ELSE IF v.t \in {"List", "List2", "Map"}
    THEN \E k \in 1..Len(v.items) : NamesBase(v.items[k].value)
    ELSE FALSE
NoBaseOverride(d) == \A sec \in DOMAIN d.sections : ~NamesBase(d.sections[sec])

\* C23: for every document in which no Object has two fields with the same
\* key hash, no SAMPLER_VALUES value is a ListB, no MATERIAL_LINK value is a
\* HashId and no override is named "BASE", the three extractors return the
\* same mapping; and lol_native.cpp and ritobin_dll.cpp return the same
\* mapping for every document.
C23_Equivalent ==
    Finished =>
        /\ results = ExtractResults(impl, doc)
        /\ (CommonDoc(doc) /\ NoBaseOverride(doc)) => SameInAll(doc)
        /\ ExtractResults("lol_native", doc) = ExtractResults("ritobin_dll", doc)

\* a document of the common class with a base texture, a direct override and
\* none named "BASE": the build that ran and the other two agree on a
\* mapping of two entries
C23_Witness ==
    /\ Finished /\ impl = "bin_parser"
    /\ CommonDoc(doc) /\ NoBaseOverride(doc)
    /\ results = ("BASE" :> "base.dds") @@ ("body" :> "d.dds")
    /\ ExtractResults("lol_native", doc) = results
    /\ ExtractResults("ritobin_dll", doc) = results

\* a document of the common class whose override resolves through a Link
C23_LinkWitness ==
    /\ Finished /\ impl = "ritobin_dll"
    /\ CommonDoc(doc) /\ NoBaseOverride(doc)
    /\ results = ("body" :> "a.dds")
    /\ ExtractResults("bin_parser", doc) = results

\* an override named "BASE" ahead of the TEXTURE field: bin_parser.cpp keeps
\* the override's path, the other two the base texture
C23_BaseWitness ==
    /\ Finished /\ impl = "lol_native"
    /\ CommonDoc(doc) /\ ~NoBaseOverride(doc)
    /\ results = ("BASE" :> "base.dds")
    /\ ExtractResults("bin_parser", doc) = ("BASE" :> "e.dds")

\* outside the common class the builds differ: a HashId link
C23_OutsideWitness ==
    /\ Finished /\ impl = "ritobin_dll"
    /\ ~CommonDoc(doc)
    /\ results = ("body" :> "a.dds")
    /\ ExtractResults("bin_parser", doc) = EmptyMap
    /\ ExtractResults("lol_native", doc) = results

====
